---- MODULE Spec2Model ----
(***************************************************************************)
(* Model of the wildcard page resolver of xmc-wildcard                     *)
(* (src/lib/wildcard-resolver: resolvePageWithWildcard,                    *)
(* queryTargetSiteAndCreatePage, logWildcardChildren, makeGraphQLRequest). *)
(*                                                                         *)
(* One resolvePageWithWildcard call is a process whose steps are the       *)
(* awaits of the code: every action performs one awaited collaborator      *)
(* call (client.getPage or fetch) and runs the synchronous code that       *)
(* follows it up to the next await.                                        *)
(*                                                                         *)
(* Strings that the code inspects (path segments) are sequences of tokens, *)
(* so that includes / startsWith / === are computed and not tabulated.     *)
(* Optional JavaScript values (null, undefined) are the empty sequence,    *)
(* a present value v is the one-element sequence <<v>>.                    *)
(***************************************************************************)
EXTENDS Integers, Sequences, FiniteSets, TLC

\* ------------------------------------------------------------------------
\* Bounds
\* ------------------------------------------------------------------------

\* longest request path (number of segments) handed to the resolver
MaxPathLen == 3

\* most children the remote endpoint lists under the target base path
MaxChildren == 2

\* ------------------------------------------------------------------------
\* Strings
\* ------------------------------------------------------------------------

\* String.prototype.includes on token strings
Includes(s, sub) ==
  \E k \in 0..(Len(s) - Len(sub)) : SubSeq(s, k + 1, k + Len(sub)) = sub

\* String.prototype.startsWith on token strings
StartsWith(s, pre) ==
  Len(s) >= Len(pre) /\ SubSeq(s, 1, Len(pre)) = pre

DOT == <<".">>
STAR == <<"*">>
WELL_KNOWN == <<".", "well-known">>
DEVTOOLS == <<"devtools">>
CHROME == <<"chrome">>
DEVTOOLS_JSON == <<"com", ".", "chrome", ".", "devtools", ".", "json">>

\* object spread {...a, ...b}: the keys of b override those of a
Spread(a, b) ==
  [k \in (DOMAIN a) \cup (DOMAIN b) |-> IF k \in DOMAIN b THEN b[k] ELSE a[k]]


\* ------------------------------------------------------------------------
\* Documents handed out by the Content Client (Page of the Content SDK)
\* ------------------------------------------------------------------------
\* Every object that matters for aliasing carries the key own: the
\* allocation it came from ("client": built by the Content Client,
\* "call": built by the running resolver call).

NoPlaceholders == [n \in {} |-> << >>]

TitleFieldFull ==
  [value |-> "Template title",
   jsonValue |-> [value |-> "Template title", rendered |-> "<h1/>"],
   editable |-> "<input/>",
   own |-> "client"]

TitleFieldBare == [value |-> "Blog", own |-> "client"]

ContentFieldFull ==
  [value |-> "Template body",
   jsonValue |-> [value |-> "Template body"],
   own |-> "client"]

DateField == [value |-> "2024-01-01", own |-> "client"]

Rendering(name, ctx, ds, phs) ==
  [componentName |-> name, contextItem |-> ctx, datasource |-> ds,
   placeholders |-> phs, own |-> "client"]

TitleRendering == Rendering("Title", <<"Template title">>, << >>, NoPlaceholders)
RichTextRendering == Rendering("RichText", << >>, <<"Template body">>, NoPlaceholders)
PromoRendering == Rendering("Promo", <<"Promo ctx">>, <<"Promo ds">>, NoPlaceholders)
PlainRendering == Rendering("Navigation", << >>, << >>, NoPlaceholders)
ContainerRendering ==
  Rendering("Container", << >>, << >>, [inner |-> <<TitleRendering, PlainRendering>>])

Route(name, itemId, fields, phs) ==
  [name |-> name, itemId |-> itemId, fields |-> fields, placeholders |-> phs]

Doc(route, language) == [route |-> route, language |-> language, own |-> "client"]

WildcardDoc ==
  Doc(<<Route("*", "{WILDCARD}",
              [Title |-> TitleFieldFull, Content |-> ContentFieldFull, Date |-> DateField],
              [main |-> <<TitleRendering, RichTextRendering, ContainerRendering>>,
               footer |-> <<PlainRendering>>])>>,
      "en")

WildcardNoIdDoc ==
  Doc(<<Route("*", "", [f \in {} |-> DateField], NoPlaceholders)>>, "")

ParentDoc ==
  Doc(<<Route("blog", "{BLOG}",
              [Title |-> TitleFieldBare, Date |-> DateField],
              [main |-> <<PromoRendering, TitleRendering>>])>>,
      "en")

NoRouteDoc == Doc(<< >>, "en")

Docs == {WildcardDoc, WildcardNoIdDoc, ParentDoc, NoRouteDoc}

\* route?.name || ''
RouteName(d) == IF d.route = << >> THEN "" ELSE d.route[1].name

\* route?.itemId || ''
RouteItemId(d) == IF d.route = << >> THEN "" ELSE d.route[1].itemId

\* ------------------------------------------------------------------------
\* Remote items (ItemWithFieldsResponse.item)
\* ------------------------------------------------------------------------

ItemField(n, v) == [name |-> n, value |-> v]

Items ==
  { [id |-> "{R1}", name |-> "Hello",
     fields |-> <<ItemField("Title", "Hello world"), ItemField("Content", "<p>Hi</p>")>>],
    [id |-> "{R2}", name |-> "post-2",
     fields |-> <<ItemField("Title", ""), ItemField("Content", "")>>],
    [id |-> "{R3}", name |-> "post-3",
     fields |-> <<ItemField("Date", "x"), ItemField("title", "lower"),
                  ItemField("Title", "Upper"), ItemField("content", "lower body")>>],
    [id |-> "{R4}", name |-> "post-4", fields |-> << >>] }

\* the title without the fallback to the item's name
TitleOf_noNameFallback(item) ==
  LET IsTitle(f) == f.name = "Title" \/ f.name = "title"
      found == SelectSeq(item.fields, IsTitle)
  IN IF found # << >> THEN Head(found).value ELSE ""

\* lines 358-365: fields?.find(Title or title), then
\* titleField?.value || itemResponse.item.name
TitleOf(item) ==
  LET IsTitle(f) == f.name = "Title" \/ f.name = "title"
      found == SelectSeq(item.fields, IsTitle)
  IN IF found # << >> /\ Head(found).value # "" THEN Head(found).value
     ELSE item.name

\* lines 361-366: fields?.find(Content or content), then
\* contentField?.value || ''
ContentOf(item) ==
  LET IsContent(f) == f.name = "Content" \/ f.name = "content"
      found == SelectSeq(item.fields, IsContent)
  IN IF found # << >> THEN Head(found).value ELSE ""

\* ------------------------------------------------------------------------
\* Field overlay (inlined three times in queryTargetSiteAndCreatePage)
\* ------------------------------------------------------------------------

EmptyObject == [k \in {} |-> ""]

\* JSON.parse(JSON.stringify(field)): a fresh object with the same data
JsonCloneField(f) == [f EXCEPT !.own = "call"]

\* the rendering itself in place of its deep copy
JsonCloneRendering_sameObject(r) == r

\* JSON.parse(JSON.stringify(rendering)), nested placeholders included
JsonCloneRendering(r) ==
  [r EXCEPT !.own = "call",
            !.placeholders =
               [n \in DOMAIN @ |->
                  [j \in DOMAIN @[n] |-> [@[n][j] EXCEPT !.own = "call"]]]]

\* the page itself in place of its deep copy
JsonClone_sameObject(d) == d

\* JSON.parse(JSON.stringify(page))
JsonClone(d) ==
  [d EXCEPT
     !.own = "call",
     !.route =
        IF @ = << >> THEN << >>
        ELSE <<[@[1] EXCEPT
                  !.fields = [k \in DOMAIN @ |-> JsonCloneField(@[k])],
                  !.placeholders =
                     [n \in DOMAIN @ |->
                        [j \in DOMAIN @[n] |-> JsonCloneRendering(@[n][j])]]]>>]

\* NewField spreading the whole existing field, not its jsonValue, into
\* the new jsonValue
NewField_spreadsField(existing, v) ==
  LET base == IF existing # << >> THEN JsonCloneField(existing[1]) ELSE EmptyObject
      json == IF existing # << >> THEN existing[1] ELSE EmptyObject
  IN Spread(base, [value |-> v,
                   jsonValue |-> Spread(json, [value |-> v]),
                   own |-> "call"])

\* NewField writing the plain value only: the structured value of the
\* existing field is copied as it is
NewField_plainValueOnly(existing, v) ==
  LET base == IF existing # << >> THEN JsonCloneField(existing[1]) ELSE EmptyObject
  IN Spread(base, [value |-> v, own |-> "call"])

\* { ...clone(existing), value: v, jsonValue: { ...clone(existing.jsonValue), value: v } }
NewField(existing, v) ==
  LET base == IF existing # << >> THEN JsonCloneField(existing[1]) ELSE EmptyObject
      json == IF existing # << >> /\ "jsonValue" \in DOMAIN existing[1]
              THEN existing[1].jsonValue ELSE EmptyObject
  IN Spread(base, [value |-> v,
                   jsonValue |-> Spread(json, [value |-> v]),
                   own |-> "call"])

\* updatedFields with Content written whatever the content
UpdatedFields_alwaysContent(existingFields, title, content) ==
  LET existingTitleField ==
        IF "Title" \in DOMAIN existingFields THEN <<existingFields["Title"]>> ELSE << >>
      existingContentField ==
        IF "Content" \in DOMAIN existingFields THEN <<existingFields["Content"]>> ELSE << >>
      keys == (DOMAIN existingFields) \cup {"Title", "Content"}
  IN [k \in keys |->
        IF k = "Title" THEN NewField(existingTitleField, title)
        ELSE IF k = "Content" THEN NewField(existingContentField, content)
        ELSE existingFields[k]]

\* updatedFields: { ...existingFields } with Title, and Content when truthy
UpdatedFields(existingFields, title, content) ==
  LET existingTitleField ==
        IF "Title" \in DOMAIN existingFields THEN <<existingFields["Title"]>> ELSE << >>
      existingContentField ==
        IF "Content" \in DOMAIN existingFields THEN <<existingFields["Content"]>> ELSE << >>
      keys == (DOMAIN existingFields) \cup {"Title"}
                \cup (IF content # "" THEN {"Content"} ELSE {})
  IN [k \in keys |->
        IF k = "Title" THEN NewField(existingTitleField, title)
        ELSE IF k = "Content" /\ content # "" THEN NewField(existingContentField, content)
        ELSE existingFields[k]]

\* titleField.value || titleField.jsonValue?.value || ''
BindingValue(titleField) ==
  IF titleField.value # "" THEN titleField.value
  ELSE IF "jsonValue" \in DOMAIN titleField /\ titleField.jsonValue.value # ""
       THEN titleField.jsonValue.value
  ELSE ""

\* updateRenderingFields: rewrite the contextItem / datasource bindings of
\* one rendering of a top-level placeholder
updateRenderingFields(rendering, titleField) ==
  [rendering EXCEPT
     !.contextItem = IF @ # << >> THEN <<BindingValue(titleField)>> ELSE @,
     !.datasource = IF @ # << >> THEN <<BindingValue(titleField)>> ELSE @]

\* the page built from the template, keeping only the renderings that carry
\* a binding
CreatePageFromWildcard_onlyBoundRenderings(wildcardPage, item, title, content) ==
  LET route == wildcardPage.route[1]
      updatedFields == UpdatedFields(route.fields, title, content)
      modifiedPage == JsonClone(wildcardPage)
      cloned == modifiedPage.route[1]
      Bound(r) == r.contextItem # << >> \/ r.datasource # << >>
      kept(n) == SelectSeq(cloned.placeholders[n], Bound)
  IN [modifiedPage EXCEPT
        !.route =
           <<[name |-> item.name,
              itemId |-> item.id,
              fields |-> updatedFields,
              placeholders |->
                 [n \in DOMAIN cloned.placeholders |->
                    [j \in DOMAIN kept(n) |->
                       updateRenderingFields(kept(n)[j], updatedFields["Title"])]]]>>]

\* the page built from the template, without line 499 (the template's
\* itemId is left in place)
CreatePageFromWildcard_keepsItemId(wildcardPage, item, title, content) ==
  LET route == wildcardPage.route[1]
      updatedFields == UpdatedFields(route.fields, title, content)
      modifiedPage == JsonClone(wildcardPage)
      cloned == modifiedPage.route[1]
  IN [modifiedPage EXCEPT
        !.route =
           <<[name |-> item.name,
              itemId |-> cloned.itemId,
              fields |-> updatedFields,
              placeholders |->
                 [n \in DOMAIN cloned.placeholders |->
                    [j \in DOMAIN cloned.placeholders[n] |->
                       updateRenderingFields(cloned.placeholders[n][j],
                                             updatedFields["Title"])]]]>>]

\* lines 429-602: the page built from the template found by the candidate loop
CreatePageFromWildcard(wildcardPage, item, title, content) ==
  LET route == wildcardPage.route[1]
      updatedFields == UpdatedFields(route.fields, title, content)
      modifiedPage == JsonClone(wildcardPage)
      cloned == modifiedPage.route[1]
  IN [modifiedPage EXCEPT
        !.route =
           <<[name |-> item.name,
              itemId |-> item.id,
              fields |-> updatedFields,
              placeholders |->
                 [n \in DOMAIN cloned.placeholders |->
                    [j \in DOMAIN cloned.placeholders[n] |->
                       updateRenderingFields(cloned.placeholders[n][j],
                                             updatedFields["Title"])]]]>>]

\* the page built from an ancestor, without lines 664 / 747 (the template's
\* itemId is left in place)
CreatePageFromAncestor_keepsItemId(ancestorPage, item, title, content) ==
  LET route == ancestorPage.route[1]
      updatedFields == UpdatedFields(route.fields, title, content)
      modifiedPage == JsonClone(ancestorPage)
      cloned == modifiedPage.route[1]
  IN [modifiedPage EXCEPT
        !.route =
           <<[name |-> item.name,
              itemId |-> cloned.itemId,
              fields |-> updatedFields,
              placeholders |-> cloned.placeholders]>>]

\* lines 616-689 and 699-769: the page built from the parent or root page
\* (placeholders are the deep copy's, no binding is rewritten)
CreatePageFromAncestor(ancestorPage, item, title, content) ==
  LET route == ancestorPage.route[1]
      updatedFields == UpdatedFields(route.fields, title, content)
      modifiedPage == JsonClone(ancestorPage)
      cloned == modifiedPage.route[1]
  IN [modifiedPage EXCEPT
        !.route =
           <<[name |-> item.name,
              itemId |-> item.id,
              fields |-> updatedFields,
              placeholders |-> cloned.placeholders]>>]


\* ------------------------------------------------------------------------
\* Inputs of one call and answers of the collaborators
\* ------------------------------------------------------------------------

Sites == {"site1", ".well-known"}

\* language codes, the markers the code tests for, the absent locale, and a
\* route parameter that is no language code at all
Locales == {"en", "da", "appspecific", "undefined", "", "sitemap.xml"}

BasePaths ==
  { << <<"blog">>, <<"post-1">>, <<"more">>, <<"deep">> >>,
    << <<"favicon", ".", "ico">>, <<"blog">>, << >>, <<"post-2">> >>,
    << <<"robots", ".", "txt">>, << >>, <<"sitemap", ".", "xml">>, <<"a", ".", "b">> >>,
    << <<"blog">>, <<"my", "devtools">>, <<"x">>, <<"y">> >>,
    << <<"news">>, <<"chrome", "-", "ext">>, <<"x">>, <<"y">> >>,
    << <<".", "well-known">>, <<"appspecific">>, DEVTOOLS_JSON, <<"z">> >> }

Min(a, b) == IF a < b THEN a ELSE b

\* the request paths: the prefixes of the base paths, at most MaxPathLen long
Paths ==
  UNION { { SubSeq(b, 1, n) : n \in 0..Min(MaxPathLen, Len(b)) } : b \in BasePaths }

TargetSiteNames == {"", "target"}

TargetSitePaths == {<< >>, <<"/sitecore/content/target/Home/blog">>}

EdgeConfigs ==
  { [edgeUrl |-> "https://edge.sitecorecloud.io", contextId |-> "ctx-1234"],
    [edgeUrl |-> "", contextId |-> "ctx-1234"],
    [edgeUrl |-> "https://edge.sitecorecloud.io", contextId |-> ""] }

\* what the remote endpoint answers to one POST: HTTP status ok or not, an
\* envelope with or without errors, and data.item
Response(ok, errors, item) == [ok |-> ok, errors |-> errors, item |-> item]

Responses ==
  { Response(FALSE, FALSE, << >>), Response(TRUE, TRUE, << >>),
    Response(TRUE, FALSE, << >>) }
  \cup { Response(TRUE, FALSE, <<it>>) : it \in Items }

\* results of an awaited call, and of the resolver
Null == [kind |-> "null"]
Thrown == [kind |-> "throw"]
PageOf(d) == [kind |-> "page", page |-> d]

\* what client.getPage can do: resolve to null, to a page, or reject
Outcomes == {Null, Thrown} \cup { PageOf(d) : d \in Docs }

\* ------------------------------------------------------------------------
\* State
\* ------------------------------------------------------------------------

VARIABLES
  path, site, locale,       \* arguments of resolvePageWithWildcard
  TARGET_SITE_NAME,         \* process.env.SITECORE_TARGET_SITE_NAME || ''
  TARGET_SITE_PATH,         \* process.env.SITECORE_TARGET_SITE_PATH || ''
  edgeConfig,               \* scConfig.api.edge
  endpoint,                 \* the remote endpoint's answer to the item query
  pages,                    \* the Content Client's answers so far, by path
  store,                    \* the Content Client's document objects as they are now
  pc,                       \* the await the call is suspended at
  finalPath, finalLocale,   \* locals of resolvePageWithWildcard
  page,                     \* result of the direct lookup
  discovered,               \* wildcardPage of resolvePageWithWildcard
  idx,                      \* position in the running for-of loop
  item,                     \* itemResponse.item
  wildcardPage,             \* wildcardPage of queryTargetSiteAndCreatePage
  getPageCalls,             \* every client.getPage call issued, in order
  requests,                 \* every POST sent to the remote endpoint, in order
  result,                   \* value the call resolved to
  status                    \* "running", "returned" or "raised"

VARIABLES
  WILDCARD_PATH_PREFIX,     \* process.env.SITECORE_WILDCARD_PATH_PREFIX || 'blog'
  defaultSite,              \* scConfig.defaultSite || sites[0]?.name || ''
  request,                  \* the NextRequest of the sitemap route
  smPc,                     \* the await the sitemap route is suspended at
  defaultResponse,          \* defaultResponse of GET
  sitemapXml,               \* sitemapXml of GET
  wildcardPrefix,           \* wildcardPrefix of enhanceSitemapWithWildcardPages
  probeIdx,                 \* position in possiblePaths
  childrenResponse,         \* what the remote endpoint answered to the children query
  targetChildren,           \* targetChildren of enhanceSitemapWithWildcardPages
  wildcardUrlEntries,       \* wildcardUrlEntries of enhanceSitemapWithWildcardPages
  enhancedSitemap,          \* what enhanceSitemapWithWildcardPages resolved to
  sitemapResponse           \* what GET resolved to

sitemap == <<WILDCARD_PATH_PREFIX, defaultSite, request, smPc, defaultResponse,
             sitemapXml, wildcardPrefix, probeIdx, childrenResponse, targetChildren,
             wildcardUrlEntries, enhancedSitemap, sitemapResponse>>

VARIABLES
  running,                  \* the call whose continuation is running
  suspended                 \* the calls suspended at an await, with their locals

scheduler == <<running, suspended>>

VARIABLES
  calls                     \* the settled calls of makeGraphQLRequest, in order

remote == <<calls>>

args == <<path, site, locale>>
config == <<TARGET_SITE_NAME, TARGET_SITE_PATH, edgeConfig, endpoint>>
locals == <<finalPath, finalLocale, page, discovered, idx, item, wildcardPage>>
vars == <<args, config, locals, pages, store, pc, getPageCalls, requests, result, status,
          sitemap, scheduler, remote>>

NoPages == [p \in {} |-> Null]

\* one call of resolvePageWithWildcard, no other call in flight
SingleCall ==
  /\ running = "a"
  /\ suspended = [c \in {} |-> Null]

\* makeGraphQLRequest on its own has not been called
RemoteIdle == calls = << >>

\* the sitemap route has not been requested
SitemapIdle ==
  /\ WILDCARD_PATH_PREFIX = <<"blog">>
  /\ defaultSite = "site1"
  /\ request = [urlOk |-> TRUE, protocol |-> << >>, host |-> << >>, pathname |-> << >>]
  /\ smPc = "idle"
  /\ defaultResponse = Null
  /\ sitemapXml = << >>
  /\ wildcardPrefix = << >>
  /\ probeIdx = 0
  /\ childrenResponse = << >>
  /\ targetChildren = << >>
  /\ wildcardUrlEntries = << >>
  /\ enhancedSitemap = << >>
  /\ sitemapResponse = Null

Init ==
  /\ RemoteIdle
  /\ SitemapIdle
  /\ SingleCall
  /\ path \in Paths
  /\ site \in Sites
  /\ locale \in Locales
  /\ TARGET_SITE_NAME \in TargetSiteNames
  /\ TARGET_SITE_PATH \in TargetSitePaths
  /\ edgeConfig \in EdgeConfigs
  /\ endpoint \in Responses
  /\ pages = NoPages
  /\ store = [d \in Docs |-> d]
  /\ pc = "start"
  /\ finalPath = << >>
  /\ finalLocale = ""
  /\ page = << >>
  /\ discovered = << >>
  /\ idx = 0
  /\ item = << >>
  /\ wildcardPage = << >>
  /\ getPageCalls = << >>
  /\ requests = << >>
  /\ result = Null
  /\ status = "running"


\* ------------------------------------------------------------------------
\* Synchronous pieces of resolvePageWithWildcard
\* ------------------------------------------------------------------------

\* the early return without the test for 'chrome'
IsSystemRequest_noChrome(p, s, l) ==
  \/ s = ".well-known"
  \/ l = "appspecific"
  \/ \E k \in DOMAIN p :
        \/ Includes(p[k], DEVTOOLS)
        \/ Includes(p[k], WELL_KNOWN)

\* lines 970-971: the early return for system requests
IsSystemRequest(p, s, l) ==
  \/ s = ".well-known"
  \/ l = "appspecific"
  \/ \E k \in DOMAIN p :
        \/ Includes(p[k], DEVTOOLS)
        \/ Includes(p[k], CHROME)
        \/ Includes(p[k], WELL_KNOWN)

\* cleanedPath without the test for a dot
CleanPath_noDotTest(p) ==
  LET Keep(segment) ==
        /\ segment # << >>
        /\ ~StartsWith(segment, WELL_KNOWN)
        /\ segment # DEVTOOLS_JSON
        /\ ~Includes(segment, DEVTOOLS)
        /\ ~Includes(segment, CHROME)
  IN SelectSeq(p, Keep)

\* lines 977-985: cleanedPath
CleanPath(p) ==
  LET Keep(segment) ==
        /\ segment # << >>
        /\ ~Includes(segment, DOT)
        /\ ~StartsWith(segment, WELL_KNOWN)
        /\ segment # DEVTOOLS_JSON
        /\ ~Includes(segment, DEVTOOLS)
        /\ ~Includes(segment, CHROME)
  IN SelectSeq(p, Keep)

\* line 988: normalizedLocale
NormalizeLocale(l) ==
  IF l # "" /\ l # "appspecific" /\ l # "undefined" THEN l ELSE "en"

\* wildcardPaths of the discovery loop with the parent's wildcard tried first
DiscoveryPaths_parentFirst(fp) ==
  << IF Len(fp) > 1 THEN Append(SubSeq(fp, 1, Len(fp) - 1), STAR) ELSE <<STAR>>,
     IF Len(fp) > 0 THEN <<fp[1], STAR>> ELSE <<STAR>>,
     <<STAR>> >>

\* wildcardPaths of the discovery loop with a fourth candidate
DiscoveryPaths_fourCandidates(fp) ==
  << IF Len(fp) > 0 THEN <<fp[1], STAR>> ELSE <<STAR>>,
     <<STAR>>,
     IF Len(fp) > 1 THEN Append(SubSeq(fp, 1, Len(fp) - 1), STAR) ELSE <<STAR>>,
     fp \o <<STAR>> >>

\* lines 1027-1031: wildcardPaths of the discovery loop
DiscoveryPaths(fp) ==
  << IF Len(fp) > 0 THEN <<fp[1], STAR>> ELSE <<STAR>>,
     <<STAR>>,
     IF Len(fp) > 1 THEN Append(SubSeq(fp, 1, Len(fp) - 1), STAR) ELSE <<STAR>> >>

\* the target site queried only when discovery found a page with an item id
QueriesTargetSite_onlyWithItemId(wp) ==
  IF wp # << >> /\ RouteItemId(store[wp[1]]) # ""
  THEN TARGET_SITE_NAME # "" /\ TARGET_SITE_PATH # << >>
  ELSE FALSE

\* lines 1066, 1072, 1098: both branches after the discovery loop call
\* queryTargetSiteAndCreatePage exactly when the target is configured
QueriesTargetSite(wp) ==
  IF wp # << >> /\ RouteItemId(store[wp[1]]) # ""
  THEN TARGET_SITE_NAME # "" /\ TARGET_SITE_PATH # << >>
  ELSE TARGET_SITE_NAME # "" /\ TARGET_SITE_PATH # << >>

\* ------------------------------------------------------------------------
\* Synchronous pieces of queryTargetSiteAndCreatePage
\* ------------------------------------------------------------------------

\* lines 310-319: the two configuration guards
TargetQueryEnabled ==
  /\ TARGET_SITE_NAME # "" /\ TARGET_SITE_PATH # << >>
  /\ edgeConfig.edgeUrl # "" /\ edgeConfig.contextId # ""

\* lines 323-328: validPath
ValidPath(p) ==
  LET Keep(segment) ==
        /\ segment # << >>
        /\ ~Includes(segment, DOT)
        /\ ~StartsWith(segment, WELL_KNOWN)
        /\ segment # DEVTOOLS_JSON
  IN SelectSeq(p, Keep)

\* targetItemPath made from the first segment
TargetItemPath_firstSegment(p) ==
  LET validPath == ValidPath(p)
  IN TARGET_SITE_PATH \o <<"/">> \o validPath[1]

\* targetItemPath made from the first and the last segment of the path
TargetItemPath_withParent(p) ==
  LET validPath == ValidPath(p)
  IN IF Len(validPath) > 1
     THEN TARGET_SITE_PATH \o <<"/">> \o validPath[1] \o <<"/">> \o validPath[Len(validPath)]
     ELSE TARGET_SITE_PATH \o <<"/">> \o validPath[1]

\* lines 330-331: targetItemPath
TargetItemPath(p) ==
  LET validPath == ValidPath(p)
      itemName == IF Len(validPath) > 1 THEN validPath[Len(validPath)]
                  ELSE validPath[1]
  IN TARGET_SITE_PATH \o <<"/">> \o itemName

\* line 334: normalizedLanguage
NormalizedLanguage(l) == IF l # "" /\ l # "appspecific" THEN l ELSE "en"

\* wildcardPaths of the template loop with ['*'] tried first
TemplatePaths_starFirst(p) ==
  << <<STAR>>,
     IF Len(p) > 0 THEN <<p[1], STAR>> ELSE <<STAR>>,
     IF Len(p) > 0 THEN <<p[1]>> ELSE << >> >>

\* lines 373-377: wildcardPaths of the template loop
TemplatePaths(p) ==
  << IF Len(p) > 0 THEN <<p[1], STAR>> ELSE <<STAR>>,
     <<STAR>>,
     IF Len(p) > 0 THEN <<p[1]>> ELSE << >> >>

\* line 390: isWildcard
IsWildcard(d, wildcardPath) ==
  RouteName(d) = "*" \/ \E k \in DOMAIN wildcardPath : wildcardPath[k] = STAR

\* line 608: parentPath
ParentPath(p) == IF Len(p) > 0 THEN <<p[1]>> ELSE << >>

\* ------------------------------------------------------------------------
\* makeGraphQLRequest
\* ------------------------------------------------------------------------

\* lines 179-194: a non-success status throws, then an envelope with errors
\* throws, otherwise the data is returned
GraphQLResult(response) ==
  IF ~response.ok THEN Thrown
  ELSE IF response.errors THEN Thrown
  ELSE [kind |-> "data", item |-> response.item]


\* ------------------------------------------------------------------------
\* Assignments of the overlay
\* ------------------------------------------------------------------------

\* lines 497-500 and 522-534 (663-665, 746-748): the assignments go through
\* modifiedPage; object now is the one the Content Client handed out, and it
\* takes every assignment whose target is that object and not a copy:
\* route.name, route.itemId and route.fields through the page, the bindings
\* through each rendering of a top-level placeholder
Written(now, modifiedPage, produced) ==
  IF now.route = << >> THEN now
  ELSE [now EXCEPT
          !.route =
             <<[name |-> IF modifiedPage.own = "client"
                         THEN produced.route[1].name ELSE now.route[1].name,
                itemId |-> IF modifiedPage.own = "client"
                           THEN produced.route[1].itemId ELSE now.route[1].itemId,
                fields |-> IF modifiedPage.own = "client"
                           THEN produced.route[1].fields ELSE now.route[1].fields,
                placeholders |->
                   [n \in DOMAIN now.route[1].placeholders |->
                      [j \in DOMAIN now.route[1].placeholders[n] |->
                         IF modifiedPage.route[1].placeholders[n][j].own = "client"
                         THEN produced.route[1].placeholders[n][j]
                         ELSE now.route[1].placeholders[n][j]]]]>>]

\* the document object d of the Content Client as it is now
Now(d) == store[d]

\* lines 474-555, 659-667, 742-750: what building the page from template
\* leaves in the Content Client's objects
Assign(template, produced) ==
  store' = [store EXCEPT ![template] = Written(@, JsonClone(@), produced)]

\* ------------------------------------------------------------------------
\* Control flow shared by the actions
\* ------------------------------------------------------------------------

\* `return v` of resolvePageWithWildcard
Return(v) == pc' = "done" /\ result' = v /\ status' = "returned"

\* the catch of resolvePageWithWildcard rethrowing what it caught
ResolveCatch_rethrows == pc' = "done" /\ result' = Null /\ status' = "raised"

\* lines 1158-1162: the catch of resolvePageWithWildcard returns null
ResolveCatch == pc' = "done" /\ result' = Null /\ status' = "returned"

\* lines 778-783 and 1079-1118: the catch of queryTargetSiteAndCreatePage
\* returns null, which resolvePageWithWildcard turns into null
QueryCatch == pc' = "done" /\ result' = Null /\ status' = "returned"

\* suspend at the next await
Goto(l) == pc' = l /\ UNCHANGED <<result, status>>

\* await client.getPage(p, { site, locale: l }) settles with outcome o; the
\* Content Client answers the same path the same way throughout one call
GetPage(p, l, o) ==
  /\ o \in Outcomes
  /\ p \in DOMAIN pages => o = pages[p]
  /\ pages' = IF p \in DOMAIN pages THEN pages ELSE (p :> o) @@ pages
  /\ getPageCalls' = Append(getPageCalls, [path |-> p, site |-> site, locale |-> l])

\* the request of makeGraphQLRequest sent a second time
Post_sentTwice(query, p, language) ==
  requests' = requests \o << [query |-> query, path |-> p, language |-> language],
                             [query |-> query, path |-> p, language |-> language] >>

\* await fetch(endpoint, POST { query, variables }) in makeGraphQLRequest
Post(query, p, language) ==
  requests' = Append(requests, [query |-> query, path |-> p, language |-> language])

\* ------------------------------------------------------------------------
\* resolvePageWithWildcard
\* ------------------------------------------------------------------------

\* the call without the case of the empty path: every path is looked up
\* directly
Start_noRootCase ==
  /\ pc = "start"
  /\ IF IsSystemRequest(path, site, locale)
     THEN /\ Return(Null)
          /\ UNCHANGED <<finalPath, finalLocale>>
     ELSE /\ finalPath' = CleanPath(path)
          /\ finalLocale' = NormalizeLocale(locale)
          /\ Goto("getDirect")
  /\ UNCHANGED <<remote, scheduler, sitemap, args, config, page, discovered, idx, item, wildcardPage,
                 pages, store, getPageCalls, requests>>

\* lines 968-1007: from the call up to the first await
Start ==
  /\ pc = "start"
  /\ IF IsSystemRequest(path, site, locale)
     THEN /\ Return(Null)
          /\ UNCHANGED <<finalPath, finalLocale>>
     ELSE /\ finalPath' = CleanPath(path)
          /\ finalLocale' = NormalizeLocale(locale)
          /\ Goto(IF CleanPath(path) = << >> THEN "getRoot" ELSE "getDirect")
  /\ UNCHANGED <<remote, scheduler, sitemap, args, config, page, discovered, idx, item, wildcardPage,
                 pages, store, getPageCalls, requests>>

\* lines 1004-1007: the empty path is the root page, returned as it comes
GetRootPage ==
  /\ pc = "getRoot"
  /\ \E o \in Outcomes :
       /\ GetPage(<< >>, finalLocale, o)
       /\ IF o = Thrown THEN ResolveCatch ELSE Return(o)
  /\ UNCHANGED <<remote, scheduler, sitemap, args, config, locals, store, requests>>

\* lines 796-818 and 933: logWildcardChildren up to its first await; true
\* when the query by item id is sent
LogsChildrenById(wildcardItemId) ==
  /\ edgeConfig.edgeUrl # "" /\ edgeConfig.contextId # ""
  /\ wildcardItemId # ""

\* isWildcardPage comparing the name with the wrong literal
IsWildcardPage_wrongLiteral(d) == RouteName(d) = "wildcard"

\* isWildcardPage with the comparison inverted
IsWildcardPage_negated(d) == RouteName(d) # "*"

\* line 1125: isWildcardPage
IsWildcardPage(d) == RouteName(d) = "*"

\* lines 1014-1157: the direct lookup and what follows it
GetDirectPage ==
  /\ pc = "getDirect"
  /\ \E o \in Outcomes :
       /\ GetPage(finalPath, finalLocale, o)
       /\ IF o = Thrown
          THEN ResolveCatch /\ UNCHANGED <<page, idx>>
          ELSE IF o = Null
          THEN Goto("discover") /\ idx' = 1 /\ UNCHANGED page
          ELSE /\ page' = <<o.page>>
               /\ UNCHANGED idx
               /\ IF IsWildcardPage(Now(o.page)) /\ Len(path) > 0
                  THEN IF LogsChildrenById(RouteItemId(Now(o.page)))
                       THEN Goto("logChildren")
                       ELSE Return(Null)
                  ELSE Return(o)
  /\ UNCHANGED <<remote, scheduler, sitemap, args, config, finalPath, finalLocale, discovered, item,
                 wildcardPage, store, requests>>

\* lines 818-878, 1147-1150: the children query by item id; whatever it
\* answers, logWildcardChildren only logs and the resolver returns null
LogChildrenById ==
  /\ pc = "logChildren"
  /\ Post("GetChildrenById", RouteItemId(Now(page[1])),
          IF Now(page[1]).language # "" THEN Now(page[1]).language ELSE locale)
  /\ \E response \in Responses :
       IF GraphQLResult(response) = Thrown
       THEN Return(Null)   \* lines 857-877: caught and logged
       ELSE Return(Null)   \* lines 837-856: children logged, or none
  /\ UNCHANGED <<remote, scheduler, sitemap, args, config, locals, pages, store, getPageCalls>>

\* after the discovery loop, falling back to the discovered wildcard page
\* when the target site is not queried
AfterDiscovery_returnsTemplate(wp) ==
  IF QueriesTargetSite(wp) /\ TargetQueryEnabled
  THEN Goto("fetchItem")
  ELSE IF wp # << >> THEN Return(PageOf(wp[1])) ELSE Return(Null)

\* lines 1066-1118 followed by lines 310-352: after the discovery loop the
\* target site is queried when it is configured, otherwise null is returned
AfterDiscovery(wp) ==
  IF QueriesTargetSite(wp) /\ TargetQueryEnabled
  THEN Goto("fetchItem")
  ELSE Return(Null)

\* lines 1038-1063: one iteration of the discovery loop
Discover ==
  /\ pc = "discover"
  /\ \E o \in Outcomes :
       /\ GetPage(DiscoveryPaths(finalPath)[idx], finalLocale, o)
       /\ IF o = Thrown
          THEN ResolveCatch /\ UNCHANGED <<discovered, idx>>
          ELSE IF o # Null
          THEN /\ discovered' = <<o.page>>
               /\ UNCHANGED idx
               /\ AfterDiscovery(<<o.page>>)
          ELSE /\ discovered' = << >>
               /\ IF idx < Len(DiscoveryPaths(finalPath))
                  THEN Goto("discover") /\ idx' = idx + 1
                  ELSE AfterDiscovery(<< >>) /\ UNCHANGED idx
  /\ UNCHANGED <<remote, scheduler, sitemap, args, config, finalPath, finalLocale, page, item,
                 wildcardPage, store, requests>>


\* ------------------------------------------------------------------------
\* queryTargetSiteAndCreatePage
\* ------------------------------------------------------------------------

\* lines 344-366: the item query; a failed request or a missing item ends the
\* call with null, a found item starts the template loop
FetchItem ==
  /\ pc = "fetchItem"
  /\ Post("GetItemWithFields", TargetItemPath(finalPath), NormalizedLanguage(finalLocale))
  /\ LET itemResponse == GraphQLResult(endpoint)
     IN IF itemResponse = Thrown
        THEN QueryCatch /\ UNCHANGED <<item, idx, wildcardPage>>
        ELSE IF itemResponse.item = << >>
        THEN Return(Null) /\ UNCHANGED <<item, idx, wildcardPage>>
        ELSE /\ item' = itemResponse.item
             /\ idx' = 1
             /\ wildcardPage' = << >>
             /\ Goto("template")
  /\ UNCHANGED <<remote, scheduler, sitemap, args, config, finalPath, finalLocale, page, discovered,
                 pages, store, getPageCalls>>

\* lines 423-433 and 603-606: after the template loop
AfterTemplateLoop(wp) ==
  IF wp # << >>
  THEN IF Now(wp[1]).route = << >>
       THEN Return(Null) /\ UNCHANGED store
       ELSE LET modifiedPage == CreatePageFromWildcard(Now(wp[1]), item[1],
                                                       TitleOf(item[1]), ContentOf(item[1]))
            IN Assign(wp[1], modifiedPage) /\ Return(PageOf(modifiedPage))
  ELSE Goto("getParent") /\ UNCHANGED store

\* lines 380-421: the end of one iteration that did not break
NextTemplate(wp) ==
  IF idx < Len(TemplatePaths(finalPath))
  THEN Goto("template") /\ idx' = idx + 1 /\ UNCHANGED store
  ELSE AfterTemplateLoop(wp) /\ UNCHANGED idx

\* lines 380-398, 418-420: one iteration of the template loop up to the
\* probe of the wildcard child
TryTemplate ==
  /\ pc = "template"
  /\ LET wildcardPath == TemplatePaths(finalPath)[idx]
     IN \E o \in Outcomes :
          /\ GetPage(wildcardPath, finalLocale, o)
          /\ IF o = Thrown
             THEN UNCHANGED wildcardPage /\ NextTemplate(wildcardPage)
             ELSE IF o = Null
             THEN wildcardPage' = << >> /\ NextTemplate(<< >>)
             ELSE /\ wildcardPage' = <<o.page>>
                  /\ IF IsWildcard(Now(o.page), wildcardPath)
                     THEN AfterTemplateLoop(<<o.page>>) /\ UNCHANGED idx
                     ELSE IF Len(wildcardPath) > 0 /\ wildcardPath[Len(wildcardPath)] # STAR
                     THEN Goto("child") /\ UNCHANGED <<idx, store>>
                     ELSE NextTemplate(<<o.page>>)
  /\ UNCHANGED <<remote, scheduler, sitemap, args, config, finalPath, finalLocale, page, discovered, item,
                 requests>>

\* lines 399-415: the probe of the wildcard child beneath a parent page
TryWildcardChild ==
  /\ pc = "child"
  /\ \E o \in Outcomes :
       /\ GetPage(Append(TemplatePaths(finalPath)[idx], STAR), finalLocale, o)
       /\ IF o \notin {Thrown, Null} /\ RouteName(Now(o.page)) = "*"
          THEN /\ wildcardPage' = <<o.page>>
               /\ AfterTemplateLoop(<<o.page>>) /\ UNCHANGED idx
          ELSE UNCHANGED wildcardPage /\ NextTemplate(wildcardPage)
  /\ UNCHANGED <<remote, scheduler, sitemap, args, config, finalPath, finalLocale, page, discovered, item,
                 requests>>

\* the ancestor page returned as it is
FromAncestor_returnsTemplate(d) ==
  Return(PageOf(Now(d))) /\ UNCHANGED store

\* lines 612-689 and 696-769: the page made from an ancestor page, if it
\* has a route
FromAncestor(d) ==
  IF Now(d).route = << >>
  THEN Return(Null) /\ UNCHANGED store
  ELSE LET modifiedPage == CreatePageFromAncestor(Now(d), item[1], TitleOf(item[1]),
                                                  ContentOf(item[1]))
       IN Assign(d, modifiedPage) /\ Return(PageOf(modifiedPage))

\* the parent lookup with a catch of its own: a throw leads on to the root
GetParentPage_skipsThrow ==
  /\ pc = "getParent"
  /\ \E o \in Outcomes :
       /\ GetPage(ParentPath(finalPath), finalLocale, o)
       /\ IF o \in {Thrown, Null} THEN Goto("getRootTemplate") /\ UNCHANGED store
          ELSE FromAncestor(o.page)
  /\ UNCHANGED <<remote, scheduler, sitemap, args, config, locals, requests>>

\* lines 607-690: the parent page as template
GetParentPage ==
  /\ pc = "getParent"
  /\ \E o \in Outcomes :
       /\ GetPage(ParentPath(finalPath), finalLocale, o)
       /\ IF o = Thrown THEN QueryCatch /\ UNCHANGED store
          ELSE IF o = Null THEN Goto("getRootTemplate") /\ UNCHANGED store
          ELSE FromAncestor(o.page)
  /\ UNCHANGED <<remote, scheduler, sitemap, args, config, locals, requests>>

\* lines 694-773: the root page as the last template
GetRootTemplate ==
  /\ pc = "getRootTemplate"
  /\ \E o \in Outcomes :
       /\ GetPage(<< >>, finalLocale, o)
       /\ IF o = Thrown THEN QueryCatch /\ UNCHANGED store
          ELSE IF o = Null THEN Return(Null) /\ UNCHANGED store
          ELSE FromAncestor(o.page)
  /\ UNCHANGED <<remote, scheduler, sitemap, args, config, locals, requests>>

\* ------------------------------------------------------------------------
\* Specification
\* ------------------------------------------------------------------------

Next ==
  \/ Start
  \/ GetRootPage
  \/ GetDirectPage
  \/ LogChildrenById
  \/ Discover
  \/ FetchItem
  \/ TryTemplate
  \/ TryWildcardChild
  \/ GetParentPage
  \/ GetRootTemplate

Spec == Init /\ [][Next]_vars


\* ------------------------------------------------------------------------
\* Path sanitization on its own (lines 976-988)
\* ------------------------------------------------------------------------
\* cleanedPath and normalizedLocale are computed from path and locale alone;
\* here they are evaluated on every path and locale, also those the early
\* return of line 970 keeps from them inside resolvePageWithWildcard.

SanitizerPaths ==
  Paths \cup { << WELL_KNOWN, <<"x">> >>,
               << <<"x">>, <<"blog">>, <<"x">> >>,
               << <<"chrome">>, DEVTOOLS_JSON, <<"devtools">> >> }

InitSanitize ==
  /\ RemoteIdle
  /\ SitemapIdle
  /\ SingleCall
  /\ path \in SanitizerPaths
  /\ site = "site1"
  /\ locale \in Locales
  /\ TARGET_SITE_NAME = ""
  /\ TARGET_SITE_PATH = << >>
  /\ edgeConfig = [edgeUrl |-> "", contextId |-> "ctx-1234"]
  /\ endpoint = Response(TRUE, FALSE, << >>)
  /\ pages = NoPages
  /\ store = [d \in Docs |-> d]
  /\ pc = "sanitize"
  /\ finalPath = << >>
  /\ finalLocale = ""
  /\ page = << >>
  /\ discovered = << >>
  /\ idx = 0
  /\ item = << >>
  /\ wildcardPage = << >>
  /\ getPageCalls = << >>
  /\ requests = << >>
  /\ result = Null
  /\ status = "running"

\* lines 977-988: cleanedPath and normalizedLocale
Sanitize ==
  /\ pc = "sanitize"
  /\ finalPath' = CleanPath(path)
  /\ finalLocale' = NormalizeLocale(locale)
  /\ pc' = "sanitized"
  /\ UNCHANGED <<remote, scheduler, sitemap, args, config, pages, store, page, discovered, idx, item,
                 wildcardPage, getPageCalls, requests, result, status>>

NextSanitize == Sanitize

SpecSanitize == InitSanitize /\ [][NextSanitize]_vars


\* ------------------------------------------------------------------------
\* Several calls of resolvePageWithWildcard in flight
\* ------------------------------------------------------------------------
\* The calls run on one thread: a continuation runs from one await to the
\* next, and at an await any other pending call may be resumed.  The
\* variables hold the arguments and locals of the running call, suspended
\* holds those of the others.  The Content Client (pages, store) and the
\* configuration are shared by all calls.  The call "alone" runs first, from
\* start to end, before the calls "a" and "b" are started; "a" is given the
\* arguments of "alone".

\* the arguments, the remote answer and the locals of the running call
Context ==
  [path |-> path, site |-> site, locale |-> locale, endpoint |-> endpoint,
   pc |-> pc, finalPath |-> finalPath, finalLocale |-> finalLocale,
   page |-> page, discovered |-> discovered, idx |-> idx, item |-> item,
   wildcardPage |-> wildcardPage, getPageCalls |-> getPageCalls,
   requests |-> requests, result |-> result, status |-> status]

\* a call that has not run yet
Fresh(p, e) ==
  [path |-> p, site |-> "site1", locale |-> "en", endpoint |-> e,
   pc |-> "start", finalPath |-> << >>, finalLocale |-> "",
   page |-> << >>, discovered |-> << >>, idx |-> 0, item |-> << >>,
   wildcardPage |-> << >>, getPageCalls |-> << >>,
   requests |-> << >>, result |-> Null, status |-> "running"]

ConcurrentPaths == { << >>, << <<"blog">> >>, << <<"blog">>, <<"post-1">> >> }

ConcurrentEndpoints ==
  { Response(TRUE, FALSE, <<it>>) : it \in { i \in Items : i.id \in {"{R1}", "{R2}"} } }
    \cup { Response(TRUE, FALSE, << >>) }

InitConcurrent ==
  /\ RemoteIdle
  /\ SitemapIdle
  /\ TARGET_SITE_NAME = "target"
  /\ TARGET_SITE_PATH = <<"/sitecore/content/target/Home/blog">>
  /\ edgeConfig = [edgeUrl |-> "https://edge.sitecorecloud.io", contextId |-> "ctx-1234"]
  /\ pages = NoPages
  /\ store = [d \in Docs |-> d]
  /\ path \in ConcurrentPaths
  /\ site = "site1"
  /\ locale = "en"
  /\ endpoint \in ConcurrentEndpoints
  /\ pc = "start"
  /\ finalPath = << >>
  /\ finalLocale = ""
  /\ page = << >>
  /\ discovered = << >>
  /\ idx = 0
  /\ item = << >>
  /\ wildcardPage = << >>
  /\ getPageCalls = << >>
  /\ requests = << >>
  /\ result = Null
  /\ status = "running"
  /\ running = "alone"
  /\ suspended \in { [c \in {"a", "b"} |->
                        IF c = "a" THEN Fresh(path, endpoint) ELSE Fresh(p, e)] :
                     p \in ConcurrentPaths, e \in ConcurrentEndpoints }

\* the event loop resumes call c: the running call is at an await (or has
\* returned), its locals stay with it, and those of c are back in place
Resume(c) ==
  /\ c \in DOMAIN suspended
  /\ c # running
  /\ c # "alone"
  /\ running = "alone" => pc = "done"
  /\ suspended[c].pc # "done"
  /\ suspended' = [k \in (DOMAIN suspended) \cup {running} |->
                     IF k = running THEN Context ELSE suspended[k]]
  /\ running' = c
  /\ path' = suspended[c].path
  /\ site' = suspended[c].site
  /\ locale' = suspended[c].locale
  /\ endpoint' = suspended[c].endpoint
  /\ pc' = suspended[c].pc
  /\ finalPath' = suspended[c].finalPath
  /\ finalLocale' = suspended[c].finalLocale
  /\ page' = suspended[c].page
  /\ discovered' = suspended[c].discovered
  /\ idx' = suspended[c].idx
  /\ item' = suspended[c].item
  /\ wildcardPage' = suspended[c].wildcardPage
  /\ getPageCalls' = suspended[c].getPageCalls
  /\ requests' = suspended[c].requests
  /\ result' = suspended[c].result
  /\ status' = suspended[c].status
  /\ UNCHANGED <<TARGET_SITE_NAME, TARGET_SITE_PATH, edgeConfig, pages, store, sitemap,
                 remote>>

NextConcurrent ==
  \/ Start
  \/ GetRootPage
  \/ GetDirectPage
  \/ LogChildrenById
  \/ Discover
  \/ FetchItem
  \/ TryTemplate
  \/ TryWildcardChild
  \/ GetParentPage
  \/ GetRootTemplate
  \/ \E c \in {"a", "b"} : Resume(c)

SpecConcurrent == InitConcurrent /\ [][NextConcurrent]_vars


\* ------------------------------------------------------------------------
\* Sitemap route (app/api/sitemap route handler and lib/sitemap-utils)
\* ------------------------------------------------------------------------
\* Texts are sequences of pieces: an XML tag or a run of ordinary
\* characters is one piece, each reserved character is a piece of its own.

AMP == <<"&", "a", "m", "p", ";">>
LT == <<"&", "l", "t", ";">>
GT == <<"&", "g", "t", ";">>
QUOT == <<"&", "q", "u", "o", "t", ";">>
APOS == <<"&", "a", "p", "o", "s", ";">>

\* String.prototype.replace(/c/g, by)
RECURSIVE ReplaceAll(_, _, _)
ReplaceAll(s, c, by) ==
  IF s = << >> THEN << >>
  ELSE (IF Head(s) = c THEN by ELSE <<Head(s)>>) \o ReplaceAll(Tail(s), c, by)

\* escapeXml replacing the ampersand after the other characters
escapeXml_ampersandLast(unsafe) ==
  ReplaceAll(ReplaceAll(ReplaceAll(ReplaceAll(ReplaceAll(unsafe,
    "<", LT), ">", GT), "\"", QUOT), "'", APOS), "&", AMP)

\* escapeXml: five replacements, the ampersand first
escapeXml(unsafe) ==
  ReplaceAll(ReplaceAll(ReplaceAll(ReplaceAll(ReplaceAll(unsafe,
    "&", AMP), "<", LT), ">", GT), "\"", QUOT), "'", APOS)

\* Array.prototype.join of texts
RECURSIVE Join(_, _)
Join(parts, sep) ==
  IF parts = << >> THEN << >>
  ELSE IF Len(parts) = 1 THEN parts[1]
  ELSE parts[1] \o sep \o Join(Tail(parts), sep)

\* String.prototype.split on a one-piece separator
RECURSIVE Split(_, _)
Split(s, sep) ==
  IF \A k \in DOMAIN s : s[k] # sep THEN <<s>>
  ELSE LET k == CHOOSE i \in DOMAIN s : s[i] = sep /\ \A j \in 1..(i - 1) : s[j] # sep
       IN <<SubSeq(s, 1, k - 1)>> \o Split(SubSeq(s, k + 1, Len(s)), sep)

\* String.prototype.replace(sub, by) with a string pattern: the first
\* occurrence only
ReplaceFirst(s, sub, by) ==
  IF ~Includes(s, sub) THEN s
  ELSE LET Occurs(i) == SubSeq(s, i, i + Len(sub) - 1) = sub
           k == CHOOSE i \in 1..(Len(s) - Len(sub) + 1) :
                  Occurs(i) /\ \A j \in 1..(i - 1) : ~Occurs(j)
       IN SubSeq(s, 1, k - 1) \o by \o SubSeq(s, k + Len(sub), Len(s))

closingTag == <<"</urlset>">>

\* part_002 lines 155-160: WILDCARD_PATH_PREFIX.split('/').filter(Boolean)
EnvPrefix ==
  LET NonEmpty(part) == part # << >>
  IN SelectSeq(Split(WILDCARD_PATH_PREFIX, "/"), NonEmpty)

\* possiblePaths with the bare wildcard probed first
PossiblePaths_starFirst == << <<STAR>>, <<WILDCARD_PATH_PREFIX, STAR>> >>

\* part_002 lines 164-167: possiblePaths
PossiblePaths == << <<WILDCARD_PATH_PREFIX, STAR>>, <<STAR>> >>

\* part_002 line 177: path.filter(segment => segment !== '*')
WithoutStar(p) ==
  LET NotStar(segment) == segment # STAR
  IN SelectSeq(p, NotStar)

\* part_000 lines 95-96: baseUrl, made of the protocol and the host of the
\* parsed request URL; its path is left out
BaseUrl(url) == url.protocol \o <<"/", "/">> \o url.host

\* fullUrl of one child with the locale left out of its path
FullUrl_withoutLocale(child, prefix) ==
  LET pathSegments == << <<defaultSite>> >> \o prefix \o <<child.name>>
      urlPath == <<"/">> \o Join(pathSegments, <<"/">>)
  IN BaseUrl(request) \o urlPath

\* part_000 lines 96-107: fullUrl of one child
FullUrl(child, prefix) ==
  LET pathSegments == << <<defaultSite>>, <<"en">> >> \o prefix \o <<child.name>>
      urlPath == <<"/">> \o Join(pathSegments, <<"/">>)
  IN BaseUrl(request) \o urlPath

\* part_000 lines 110-116: one entry of wildcardUrlEntries
UrlEntry(fullUrl) ==
  <<"\n", "<url>", "\n", "<loc>">> \o escapeXml(fullUrl) \o
  <<"</loc>", "\n", "<lastmod>", "now", "</lastmod>", "\n",
    "<changefreq>", "weekly", "</changefreq>", "\n",
    "<priority>", "0.8", "</priority>", "\n", "</url>">>

\* the entries appended after the closing tag
InsertEntries_afterClosingTag(xml, entries) ==
  xml \o Join(entries, << >>)

\* part_000 lines 119-128: the entries go before the closing tag, or at the
\* end of a text that has none
InsertEntries(xml, entries) ==
  IF Includes(xml, closingTag)
  THEN ReplaceFirst(xml, closingTag, << >>) \o Join(entries, << >>)
         \o <<"\n">> \o closingTag
  ELSE xml \o Join(entries, << >>)

\* ---- inputs of the sitemap route ----

WildcardPathPrefixes == { <<"blog">>, <<"news", "/", "posts">>, <<"/">> }

DefaultSites == {"", "site1"}

SitemapRequests ==
  { [urlOk |-> TRUE, protocol |-> <<"https:">>, host |-> <<"example.com">>,
     pathname |-> <<"/", "sitemap.xml">>],
    [urlOk |-> TRUE, protocol |-> <<"http:">>, host |-> <<"a", "&", "b">>,
     pathname |-> <<"/", "api", "/", "sitemap">>],
    [urlOk |-> FALSE, protocol |-> << >>, host |-> << >>, pathname |-> << >>] }

BaseSitemaps ==
  { <<"<?xml?>", "<urlset>", "<url>", "<loc>", "https://example.com/", "</loc>",
      "</url>", "</urlset>">>,
    <<"<urlset>", "<url>", "<loc>", "https://example.com/a", "</loc>", "</url>",
      "</urlset>", "\n">>,
    <<"<urlset>", "</urlset>">>,
    <<"<sitemapindex>", "<sitemap>", "</sitemap>", "</sitemapindex>">> }

\* what defaultSitemapHandler.GET can do: reject, resolve to nothing, or
\* resolve to a response whose body can be read or not
HandlerOutcomes ==
  {Thrown, Null} \cup
  { [kind |-> "response", status |-> st, body |-> b, textOk |-> t] :
      st \in {200, 404}, b \in BaseSitemaps, t \in BOOLEAN }

ChildNames ==
  { <<"post-1">>, <<"A", " ", "&", " ", "B">>, <<"<", "x", ">">>,
    <<"a", "\"", "b", "'", "c">>, <<"&", "l", "t", ";">> }

\* part_002 lines 32-39: WildcardChild, its id and its name
Child(n) == [id |-> <<"{">> \o n \o <<"}">>, name |-> n]

ChildLists ==
  UNION { [1..k -> { Child(n) : n \in ChildNames }] : k \in 0..MaxChildren }

\* what the remote endpoint answers to the children query: data.item is
\* null, or an item with children.results; an envelope with errors can carry
\* data as well
ChildrenResponses ==
  { Response(FALSE, FALSE, << >>), Response(TRUE, TRUE, << >>),
    Response(TRUE, TRUE, <<[children |-> <<Child(<<"post-1">>)>>]>>),
    Response(TRUE, FALSE, << >>) }
  \cup { Response(TRUE, FALSE, <<[children |-> l]>>) : l \in ChildLists }

\* the children of the answer, the errors of the envelope not looked at
ChildrenOf_ignoresErrors(r) ==
  IF ~r.ok THEN << >>
  ELSE IF r.item = << >> THEN << >>
  ELSE r.item[1].children

\* part_002 lines 90-101 and 124-145: the children of the answer, none when
\* the request fails
ChildrenOf(r) ==
  IF ~r.ok THEN << >>
  ELSE IF r.errors THEN << >>
  ELSE IF r.item = << >> THEN << >>
  ELSE r.item[1].children

\* ---- the route ----

resolver == <<args, locals, store, pc, result, status>>

InitSitemap ==
  /\ RemoteIdle
  /\ SingleCall
  /\ path = << >> /\ site = "site1" /\ locale = "en"
  /\ TARGET_SITE_NAME \in TargetSiteNames
  /\ TARGET_SITE_PATH \in TargetSitePaths
  /\ edgeConfig \in EdgeConfigs
  /\ endpoint = Response(TRUE, FALSE, << >>)
  /\ pages = NoPages
  /\ store = [d \in Docs |-> d]
  /\ pc = "idle"
  /\ finalPath = << >> /\ finalLocale = ""
  /\ page = << >> /\ discovered = << >> /\ idx = 0
  /\ item = << >> /\ wildcardPage = << >>
  /\ getPageCalls = << >> /\ requests = << >>
  /\ result = Null /\ status = "running"
  /\ WILDCARD_PATH_PREFIX \in WildcardPathPrefixes
  /\ defaultSite \in DefaultSites
  /\ request \in SitemapRequests
  /\ smPc = "get"
  /\ defaultResponse = Null
  /\ sitemapXml = << >>
  /\ wildcardPrefix = << >>
  /\ probeIdx = 0
  /\ childrenResponse = << >>
  /\ targetChildren = << >>
  /\ wildcardUrlEntries = << >>
  /\ enhancedSitemap = << >>
  /\ sitemapResponse = Null

\* suspend the route at its next await
SmGoto(l) == smPc' = l /\ UNCHANGED <<enhancedSitemap, sitemapResponse>>

\* part_000 lines 43-46: the headers of the answer
SitemapHeaders ==
  [ContentType |-> "application/xml",
   CacheControl |-> "public, max-age=3600, s-maxage=3600"]

\* GET answering with the status of the default response
Respond_defaultStatus(text) ==
  /\ enhancedSitemap' = <<text>>
  /\ sitemapResponse' = [kind |-> "response", status |-> defaultResponse.status,
                         headers |-> SitemapHeaders, body |-> text]
  /\ smPc' = "done"

\* GET answering without the cache directive
Respond_notCached(text) ==
  /\ enhancedSitemap' = <<text>>
  /\ sitemapResponse' = [kind |-> "response", status |-> 200,
                         headers |-> [ContentType |-> "application/xml",
                                      CacheControl |-> "no-store"],
                         body |-> text]
  /\ smPc' = "done"

\* part_000 lines 39-48: enhanceSitemapWithWildcardPages resolves to text and
\* GET answers with it
Respond(text) ==
  /\ enhancedSitemap' = <<text>>
  /\ sitemapResponse' = [kind |-> "response", status |-> 200,
                         headers |-> SitemapHeaders, body |-> text]
  /\ smPc' = "done"

\* part_000 line 86 and part_002 lines 109-119: getTargetSiteChildren up to
\* its await; without configuration it resolves to [] and the sitemap is
\* returned as it is (part_000 lines 88-91)
AfterPrefix(prefix, xml) ==
  /\ wildcardPrefix' = prefix
  /\ IF TARGET_SITE_NAME = "" \/ TARGET_SITE_PATH = << >>
     THEN Respond(xml) /\ targetChildren' = << >>
     ELSE IF edgeConfig.edgeUrl = "" \/ edgeConfig.contextId = ""
     THEN Respond(xml) /\ targetChildren' = << >>
     ELSE SmGoto("children") /\ UNCHANGED targetChildren

\* enhanceSitemapWithWildcardPages returning early only when both the
\* target name and the target path are missing
Enhance_bothMissing(xml) ==
  IF TARGET_SITE_NAME = "" /\ TARGET_SITE_PATH = << >>
  THEN Respond(xml) /\ UNCHANGED <<wildcardPrefix, targetChildren>>
  ELSE IF defaultSite = ""
  THEN Respond(xml) /\ UNCHANGED <<wildcardPrefix, targetChildren>>
  ELSE IF WILDCARD_PATH_PREFIX # <<"blog">> /\ Len(EnvPrefix) > 0
  THEN AfterPrefix(EnvPrefix, xml)
  ELSE SmGoto("import") /\ UNCHANGED <<wildcardPrefix, targetChildren>>

\* part_000 lines 63-83 and part_002 lines 153-170:
\* enhanceSitemapWithWildcardPages up to its first await
Enhance(xml) ==
  IF TARGET_SITE_NAME = "" \/ TARGET_SITE_PATH = << >>
  THEN Respond(xml) /\ UNCHANGED <<wildcardPrefix, targetChildren>>
  ELSE IF defaultSite = ""
  THEN Respond(xml) /\ UNCHANGED <<wildcardPrefix, targetChildren>>
  ELSE IF WILDCARD_PATH_PREFIX # <<"blog">> /\ Len(EnvPrefix) > 0
  THEN AfterPrefix(EnvPrefix, xml)
  ELSE SmGoto("import") /\ UNCHANGED <<wildcardPrefix, targetChildren>>

\* part_000 lines 27-33 and 49-53: await defaultSitemapHandler.GET(request)
DefaultHandlerGet ==
  /\ smPc = "get"
  /\ \E o \in HandlerOutcomes :
       /\ defaultResponse' = o
       /\ IF o = Thrown THEN SmGoto("fallback")
          ELSE IF o = Null
          THEN /\ sitemapResponse' = [kind |-> "response", status |-> 500,
                                      body |-> <<"Sitemap not available">>]
               /\ smPc' = "done"
               /\ UNCHANGED enhancedSitemap
          ELSE SmGoto("text")
  /\ UNCHANGED <<remote, scheduler, resolver, config, pages, getPageCalls, requests,
                 WILDCARD_PATH_PREFIX, defaultSite, request, sitemapXml,
                 wildcardPrefix, probeIdx, childrenResponse, targetChildren,
                 wildcardUrlEntries>>

\* part_000 lines 36-39: await defaultResponse.text(), then the call of
\* enhanceSitemapWithWildcardPages
ReadText ==
  /\ smPc = "text"
  /\ IF ~defaultResponse.textOk
     THEN SmGoto("fallback") /\ UNCHANGED <<sitemapXml, wildcardPrefix, targetChildren>>
     ELSE sitemapXml' = defaultResponse.body /\ Enhance(defaultResponse.body)
  /\ UNCHANGED <<remote, scheduler, resolver, config, pages, getPageCalls, requests,
                 WILDCARD_PATH_PREFIX, defaultSite, request, defaultResponse,
                 probeIdx, childrenResponse, wildcardUrlEntries>>

\* part_002 line 170: await import('./sitecore-client'); a rejection is
\* caught by enhanceSitemapWithWildcardPages (part_000 lines 129-134)
ImportClient ==
  /\ smPc = "import"
  /\ \E loaded \in BOOLEAN :
       IF loaded THEN SmGoto("probe") /\ probeIdx' = 1
       ELSE Respond(sitemapXml) /\ UNCHANGED probeIdx
  /\ UNCHANGED <<remote, scheduler, resolver, config, pages, getPageCalls, requests,
                 WILDCARD_PATH_PREFIX, defaultSite, request, defaultResponse,
                 sitemapXml, wildcardPrefix, childrenResponse, targetChildren,
                 wildcardUrlEntries>>

\* part_002 lines 172-185: one iteration of the loop over possiblePaths
ProbeWildcard ==
  /\ smPc = "probe"
  /\ LET p == PossiblePaths[probeIdx]
     IN \E o \in Outcomes :
          /\ p \in DOMAIN pages => o = pages[p]
          /\ pages' = IF p \in DOMAIN pages THEN pages ELSE (p :> o) @@ pages
          /\ getPageCalls' =
               Append(getPageCalls, [path |-> p, site |-> defaultSite, locale |-> "en"])
          /\ IF o \notin {Thrown, Null} /\ RouteName(Now(o.page)) = "*"
             THEN AfterPrefix(WithoutStar(p), sitemapXml) /\ UNCHANGED probeIdx
             ELSE IF probeIdx < Len(PossiblePaths)
             THEN /\ SmGoto("probe") /\ probeIdx' = probeIdx + 1
                  /\ UNCHANGED <<wildcardPrefix, targetChildren>>
             ELSE AfterPrefix(<<WILDCARD_PATH_PREFIX>>, sitemapXml) /\ UNCHANGED probeIdx
  /\ UNCHANGED <<remote, scheduler, resolver, config, requests,
                 WILDCARD_PATH_PREFIX, defaultSite, request, defaultResponse,
                 sitemapXml, childrenResponse, wildcardUrlEntries>>

\* part_002 lines 124-145 and part_000 lines 88-128: the children query and
\* the synchronous rest of enhanceSitemapWithWildcardPages
FetchChildren ==
  /\ smPc = "children"
  /\ Post("GetChildrenByPath", TARGET_SITE_PATH, NormalizedLanguage("en"))
  /\ \E r \in ChildrenResponses :
       LET children == ChildrenOf(r)
           entries == [k \in DOMAIN children |->
                         UrlEntry(FullUrl(children[k], wildcardPrefix))]
       IN /\ childrenResponse' = <<r>>
          /\ targetChildren' = children
          /\ IF Len(children) = 0
             THEN Respond(sitemapXml) /\ UNCHANGED wildcardUrlEntries
             ELSE IF ~request.urlOk
             THEN Respond(sitemapXml) /\ UNCHANGED wildcardUrlEntries
             ELSE /\ wildcardUrlEntries' = entries
                  /\ Respond(InsertEntries(sitemapXml, entries))
  /\ UNCHANGED <<remote, scheduler, resolver, config, pages, getPageCalls,
                 WILDCARD_PATH_PREFIX, defaultSite, request, defaultResponse,
                 sitemapXml, wildcardPrefix, probeIdx>>

\* part_000 lines 49-53: the catch of GET answers with a second call of the
\* default handler, whatever it yields
FallbackGet ==
  /\ smPc = "fallback"
  /\ \E o \in HandlerOutcomes :
       /\ sitemapResponse' = o
       /\ smPc' = "done"
  /\ UNCHANGED <<remote, scheduler, resolver, config, pages, getPageCalls, requests,
                 WILDCARD_PATH_PREFIX, defaultSite, request, defaultResponse,
                 sitemapXml, wildcardPrefix, probeIdx, childrenResponse,
                 targetChildren, wildcardUrlEntries, enhancedSitemap>>

NextSitemap ==
  \/ DefaultHandlerGet
  \/ ReadText
  \/ ImportClient
  \/ ProbeWildcard
  \/ FetchChildren
  \/ FallbackGet

SpecSitemap == InitSitemap /\ [][NextSitemap]_vars


\* ------------------------------------------------------------------------
\* Vocabulary of the properties
\* ------------------------------------------------------------------------

Done == pc = "done"

\* the tier-0 conditions as the specification states them
SystemRequest ==
  \/ site = ".well-known"
  \/ locale = "appspecific"
  \/ \E k \in DOMAIN path :
       Includes(path[k], <<"devtools">>) \/ Includes(path[k], <<"chrome">>)
         \/ Includes(path[k], <<".", "well-known">>)

TargetConfigured == TARGET_SITE_NAME # "" /\ TARGET_SITE_PATH # << >>

\* the Content Client was asked for path p and answered a (answers are
\* fixed per path for the duration of the call)
Answered(p, a) == p \in DOMAIN pages /\ pages[p] = a

AnsweredPage(p) == p \in DOMAIN pages /\ pages[p].kind = "page"

\* the item the Remote Query Client returns for the derived remote path:
\* the endpoint is reachable (edge configuration present), answers with a
\* success status and an envelope without errors
RemoteItem ==
  IF edgeConfig.edgeUrl # "" /\ edgeConfig.contextId # ""
       /\ endpoint.ok /\ ~endpoint.errors
  THEN endpoint.item ELSE << >>

\* the value of the first field of R named Title or title, if R has one
RemoteTitleField(R) ==
  LET named == { k \in DOMAIN R.fields : R.fields[k].name \in {"Title", "title"} }
  IN IF named = {} THEN << >>
     ELSE <<R.fields[CHOOSE k \in named : \A m \in named : k <= m].value>>

Synthesized == Done /\ result.kind = "page" /\ result.page.own = "call"

FirstWildcard == <<finalPath[1], <<"*">>>>

RemotePathOfLastSegment ==
  TARGET_SITE_PATH \o <<"/">> \o finalPath[Len(finalPath)]

\* the happy path of tier 3: direct lookup empty, wildcard template at
\* [firstSegment, '*'], remote item R at <base path>/<last segment>
HappyPath ==
  /\ Done /\ ~SystemRequest /\ TargetConfigured
  /\ finalPath # << >>
  /\ Answered(finalPath, Null)
  /\ AnsweredPage(FirstWildcard) /\ RouteName(pages[FirstWildcard].page) = "*"
  /\ RemoteItem # << >>
  /\ \E k \in DOMAIN requests :
       requests[k].query = "GetItemWithFields" /\ requests[k].path = RemotePathOfLastSegment

ResultRoute == result.page.route[1]

\* ------------------------------------------------------------------------
\* C1
\* ------------------------------------------------------------------------

\* C1 as stated: on the happy path the returned document has R's name and
\* id and its Title field value equals the value of R's Title field.
C1_TitleEqualsRemoteTitleField ==
  HappyPath =>
    /\ result.kind = "page"
    /\ ResultRoute.name = RemoteItem[1].name
    /\ ResultRoute.itemId = RemoteItem[1].id
    /\ RemoteTitleField(RemoteItem[1]) # << >> =>
         ResultRoute.fields["Title"].value = RemoteTitleField(RemoteItem[1])[1]

\* C1 amended: on the happy path the returned document has R's name and id,
\* and its Title field value is the value of R's Title field when R has a
\* non-empty one and R's name otherwise.
C1_HappyPath ==
  HappyPath =>
    /\ result.kind = "page"
    /\ ResultRoute.name = RemoteItem[1].name
    /\ ResultRoute.itemId = RemoteItem[1].id
    /\ ResultRoute.fields["Title"].value =
         IF RemoteTitleField(RemoteItem[1]) \notin {<< >>, <<"">>}
         THEN RemoteTitleField(RemoteItem[1])[1]
         ELSE RemoteItem[1].name

C1_Witness ==
  /\ HappyPath
  /\ Len(finalPath) = 2
  /\ result.kind = "page"
  /\ ResultRoute.name = "Hello"
  /\ ResultRoute.fields["Title"].value = "Hello world"

\* ------------------------------------------------------------------------
\* C2
\* ------------------------------------------------------------------------

DirectHit ==
  /\ finalPath # << >>
  /\ AnsweredPage(finalPath)
  /\ RouteName(pages[finalPath].page) # "*"

\* C2: a direct lookup of the non-empty sanitized path that yields a document
\* not named '*' is the only collaborator call of the whole resolution, and
\* the call returns that very document.
C2_DirectHitShortCircuits ==
  DirectHit =>
    /\ Done
    /\ result = pages[finalPath]
    /\ getPageCalls = <<[path |-> finalPath, site |-> site, locale |-> finalLocale]>>
    /\ requests = << >>

C2_Witness ==
  /\ DirectHit /\ Done
  /\ result = PageOf(ParentDoc)
  /\ Len(finalPath) = 2


\* ------------------------------------------------------------------------
\* C3
\* ------------------------------------------------------------------------

\* C3: when the Content Client answers nothing for the requested path and the
\* Remote Query Client has no item for the derived path, the call returns
\* null without raising, whatever the Content Client answers for the
\* wildcard, parent and root paths.
C3_TerminalNotFound ==
  (Done /\ Answered(finalPath, Null) /\ RemoteItem = << >>) =>
    (result = Null /\ status = "returned")

C3_Witness ==
  /\ Done /\ Answered(finalPath, Null) /\ RemoteItem = << >>
  /\ Len(finalPath) = 2
  /\ AnsweredPage(FirstWildcard)
  /\ TargetConfigured /\ endpoint = Response(TRUE, FALSE, << >>)
  /\ Len(requests) = 1
  /\ result = Null

\* ------------------------------------------------------------------------
\* C4
\* ------------------------------------------------------------------------

RemoteFetchFailed ==
  /\ \E k \in DOMAIN requests : requests[k].query = "GetItemWithFields"
  /\ ~endpoint.ok \/ endpoint.errors

ContentClientThrew == \E p \in DOMAIN pages : pages[p] = Thrown

\* C4: whatever the collaborators do, the call ends by returning a document
\* or null, never by raising; a failed remote fetch and a Content Client
\* exception both end in null.
C4_NoExceptionSurfaces ==
  /\ status \in {"running", "returned"}
  /\ Done => (status = "returned" /\ result.kind \in {"null", "page"})
  /\ (Done /\ RemoteFetchFailed) => result = Null

C4_Witness ==
  /\ Done /\ status = "returned" /\ result = Null
  /\ ContentClientThrew \/ RemoteFetchFailed
  /\ Len(getPageCalls) >= 2

\* ------------------------------------------------------------------------
\* C5
\* ------------------------------------------------------------------------

\* C5: a request whose site is '.well-known', whose locale is 'appspecific'
\* or one of whose segments contains 'devtools', 'chrome' or '.well-known'
\* issues no Content Client call and no remote request and returns null.
C5_Tier0Rejection ==
  SystemRequest =>
    /\ getPageCalls = << >>
    /\ requests = << >>
    /\ pages = NoPages
    /\ pc \in {"start", "done"}
    /\ Done => (result = Null /\ status = "returned")

C5_Witness ==
  /\ SystemRequest /\ Done
  /\ site = "site1" /\ locale = "en"
  /\ \E k \in DOMAIN path : Includes(path[k], <<"chrome">>)
  /\ CleanPath(path) # << >>
  /\ result = Null


\* ------------------------------------------------------------------------
\* C6
\* ------------------------------------------------------------------------

\* the direct lookup (of the sanitized path, the root for an empty one)
\* yields a document that is not named '*'
DirectNonWildcard ==
  AnsweredPage(finalPath) /\ RouteName(pages[finalPath].page) # "*"

\* C6 as stated: without the target name or base path, the call returns
\* null whenever the direct lookup does not yield a non-wildcard document.
C6_NothingWithoutTarget ==
  (Done /\ ~TargetConfigured /\ ~DirectNonWildcard) => result = Null

\* C6 amended: without the target name or base path no item query is sent,
\* nothing is synthesized and nothing is raised; for a non-empty sanitized
\* path the call returns null whenever the direct lookup does not yield a
\* non-wildcard document; for an empty sanitized path it returns the
\* document the root lookup yields, whatever its name, and null if it
\* yields none.
C6_NoEnrichmentWithoutTarget ==
  ~TargetConfigured =>
    /\ \A k \in DOMAIN requests : requests[k].query # "GetItemWithFields"
    /\ status # "raised"
    /\ Done =>
         /\ result.kind = "page" => result.page.own = "client"
         /\ (finalPath # << >> /\ ~DirectNonWildcard) => result = Null
         /\ (finalPath = << >> /\ AnsweredPage(<< >>)) => result = pages[<< >>]
         /\ (finalPath = << >> /\ ~AnsweredPage(<< >>)) => result = Null

C6_Witness ==
  /\ Done /\ ~TargetConfigured /\ TARGET_SITE_NAME # ""
  /\ Len(finalPath) = 2
  /\ Answered(finalPath, Null)
  /\ AnsweredPage(FirstWildcard) /\ RouteName(pages[FirstWildcard].page) = "*"
  /\ endpoint.item # << >>
  /\ result = Null

\* ------------------------------------------------------------------------
\* C7
\* ------------------------------------------------------------------------

DirectWildcard ==
  /\ finalPath # << >>
  /\ AnsweredPage(finalPath)
  /\ RouteName(pages[finalPath].page) = "*"

\* C7 as stated: a direct result named '*' continues the chain, so that with
\* a configured target and an existing remote item the call returns the
\* clone carrying the remote item's name and identifier.
C7_WildcardDirectContinues ==
  (Done /\ DirectWildcard /\ TargetConfigured /\ RemoteItem # << >>) =>
    /\ result.kind = "page"
    /\ ResultRoute.name = RemoteItem[1].name
    /\ ResultRoute.itemId = RemoteItem[1].id

\* C7 amended: a direct result named '*' for a non-empty sanitized path ends
\* the resolution with null: no further Content Client lookup is made, no
\* item query is sent, and the only remote request there can be is the one
\* children query by the document's item id, whose answer is only logged.
C7_WildcardDirectReturnsNull ==
  DirectWildcard =>
    /\ pc \in {"logChildren", "done"}
    /\ Len(getPageCalls) = 1
    /\ Len(requests) <= 1
    /\ \A k \in DOMAIN requests :
         /\ requests[k].query = "GetChildrenById"
         /\ requests[k].path = RouteItemId(pages[finalPath].page)
    /\ Done => (result = Null /\ status = "returned")

C7_Witness ==
  /\ Done /\ DirectWildcard /\ TargetConfigured /\ RemoteItem # << >>
  /\ Len(requests) = 1
  /\ result = Null

\* ------------------------------------------------------------------------
\* C8
\* ------------------------------------------------------------------------

ParentOfRequest == <<finalPath[1]>>

\* the title the overlay takes from R: its Title field value, or its name
\* when that is missing or empty
RemoteTitle(R) ==
  IF RemoteTitleField(R) \notin {<< >>, <<"">>} THEN RemoteTitleField(R)[1] ELSE R.name

\* component names, binding kinds and nesting of a placeholder tree
LeafShape(r) ==
  [componentName |-> r.componentName,
   contextItem |-> r.contextItem # << >>,
   datasource |-> r.datasource # << >>]

Shape(phs) ==
  [n \in DOMAIN phs |->
     [j \in DOMAIN phs[n] |->
        [rendering |-> LeafShape(phs[n][j]),
         nested |-> [m \in DOMAIN phs[n][j].placeholders |->
                       [i \in DOMAIN phs[n][j].placeholders[m] |->
                          LeafShape(phs[n][j].placeholders[m][i])]]]]]

\* the result is a clone of template tpl carrying R's name, id and title
EnrichedCloneOf(tpl, R) ==
  /\ result.kind = "page"
  /\ tpl.route # << >>
  /\ result.page.own = "call"
  /\ ResultRoute.name = R.name
  /\ ResultRoute.itemId = R.id
  /\ ResultRoute.fields["Title"].value = RemoteTitle(R)
  /\ Shape(ResultRoute.placeholders) = Shape(tpl.route[1].placeholders)
  /\ \A f \in DOMAIN tpl.route[1].fields \ {"Title", "Content"} :
       f \in DOMAIN ResultRoute.fields /\ ResultRoute.fields[f] = tpl.route[1].fields[f]

\* direct lookup empty, no wildcard candidate yields a template, target
\* configured, remote item present
AncestorCase ==
  /\ Done /\ TargetConfigured /\ RemoteItem # << >>
  /\ finalPath # << >>
  /\ Answered(finalPath, Null)
  /\ Answered(FirstWildcard, Null)
  /\ Answered(<<STAR>>, Null)
  /\ ~(AnsweredPage(ParentOfRequest) /\ RouteName(pages[ParentOfRequest].page) = "*")

\* C8 as stated (for calls in which no Content Client lookup throws): the
\* result is the enriched clone of the parent document if the Content Client
\* returns one, otherwise of the root document, and nothing only if neither
\* exists.
C8_AncestorFallback ==
  (AncestorCase /\ ~ContentClientThrew) =>
    IF AnsweredPage(ParentOfRequest)
    THEN EnrichedCloneOf(pages[ParentOfRequest].page, RemoteItem[1])
    ELSE IF AnsweredPage(<< >>)
    THEN EnrichedCloneOf(pages[<< >>].page, RemoteItem[1])
    ELSE result = Null

\* C8 amended: the result is the enriched clone of the parent document if
\* the Content Client returns one that has a route; of the root document if
\* the Content Client returns no parent and a root that has a route; and
\* nothing in every other case: a parent or root without a route, neither
\* present, or a Content Client lookup that throws.
C8_AncestorFallbackWithRoute ==
  AncestorCase =>
    IF AnsweredPage(ParentOfRequest)
    THEN IF pages[ParentOfRequest].page.route # << >>
         THEN EnrichedCloneOf(pages[ParentOfRequest].page, RemoteItem[1])
         ELSE result = Null
    ELSE IF Answered(ParentOfRequest, Null) /\ AnsweredPage(<< >>)
              /\ pages[<< >>].page.route # << >>
    THEN EnrichedCloneOf(pages[<< >>].page, RemoteItem[1])
    ELSE result = Null

C8_Witness ==
  /\ AncestorCase
  /\ Answered(ParentOfRequest, Null)
  /\ Answered(<< >>, PageOf(WildcardDoc))
  /\ result.kind = "page"
  /\ ResultRoute.name = "Hello"

\* ------------------------------------------------------------------------
\* C9
\* ------------------------------------------------------------------------

\* the overlay the call applied to its template, applied to document d
OverlayAgain(d) ==
  IF wildcardPage # << >>
  THEN CreatePageFromWildcard(d, item[1], TitleOf(item[1]), ContentOf(item[1]))
  ELSE CreatePageFromAncestor(d, item[1], TitleOf(item[1]), ContentOf(item[1]))

\* C9: overlaying a synthesized document again with the same title and
\* content leaves it as it is; the same for every template document the
\* Content Client can hand out, under both forms of the overlay.
C9_OverlayIdempotent ==
  /\ Synthesized => OverlayAgain(result.page) = result.page
  /\ item # << >> =>
       \A d \in Docs : d.route # << >> =>
         LET R == item[1]
             once == CreatePageFromWildcard(d, R, TitleOf(R), ContentOf(R))
             plain == CreatePageFromAncestor(d, R, TitleOf(R), ContentOf(R))
         IN /\ CreatePageFromWildcard(once, R, TitleOf(R), ContentOf(R)) = once
            /\ CreatePageFromAncestor(plain, R, TitleOf(R), ContentOf(R)) = plain

C9_Witness ==
  /\ Synthesized
  /\ wildcardPage = <<WildcardDoc>>
  /\ ContentOf(item[1]) # ""
  /\ result.page # JsonClone(WildcardDoc)

\* ------------------------------------------------------------------------
\* C10
\* ------------------------------------------------------------------------

\* the template the synthesized document was cloned from
TemplateUsed == IF wildcardPage # << >> THEN wildcardPage[1] ELSE pages[<< >>].page

\* C10: a synthesized document has the placeholder names of its template
\* and, in each placeholder, renderings of the same number, order, component
\* names and binding kinds, nested placeholders included.
C10_ShapePreserved ==
  Synthesized =>
    Shape(ResultRoute.placeholders) = Shape(TemplateUsed.route[1].placeholders)

C10_Witness ==
  /\ Synthesized
  /\ TemplateUsed = WildcardDoc
  /\ Len(ResultRoute.placeholders["main"]) = 3
  /\ ResultRoute.placeholders["main"][1].contextItem
       # WildcardDoc.route[1].placeholders["main"][1].contextItem

\* ------------------------------------------------------------------------
\* C11
\* ------------------------------------------------------------------------

\* the value of the first field of R named Content or content, '' if none
RemoteContent(R) ==
  LET named == { k \in DOMAIN R.fields : R.fields[k].name \in {"Content", "content"} }
  IN IF named = {} THEN ""
     ELSE R.fields[CHOOSE k \in named : \A m \in named : k <= m].value

\* field f holds v in both representations
BothRepresentations(f, v) ==
  /\ f.value = v
  /\ "jsonValue" \in DOMAIN f
  /\ f.jsonValue.value = v

\* every key of the original field other than the two values is in the new
\* field with the value it had, and so is every other key of its jsonValue
EnvelopePreserved(original, f) ==
  /\ \A k \in DOMAIN original \ {"value", "jsonValue", "own"} :
       k \in DOMAIN f /\ f[k] = original[k]
  /\ "jsonValue" \in DOMAIN original =>
       \A k \in DOMAIN original.jsonValue \ {"value"} :
         k \in DOMAIN f.jsonValue /\ f.jsonValue[k] = original.jsonValue[k]

\* C11: in every synthesized document the Title field holds the new title
\* in its plain value and in jsonValue.value; when the remote content is
\* non-empty the Content field holds it in both; the other keys of the
\* template's Title and Content fields, and of their jsonValue, are kept.
C11_FieldRepresentation ==
  Synthesized =>
    LET original == TemplateUsed.route[1].fields
        fields == ResultRoute.fields
        title == RemoteTitle(item[1])
        content == RemoteContent(item[1])
    IN /\ "Title" \in DOMAIN fields
       /\ BothRepresentations(fields["Title"], title)
       /\ "Title" \in DOMAIN original =>
            EnvelopePreserved(original["Title"], fields["Title"])
       /\ content # "" =>
            /\ "Content" \in DOMAIN fields
            /\ BothRepresentations(fields["Content"], content)
            /\ "Content" \in DOMAIN original =>
                 EnvelopePreserved(original["Content"], fields["Content"])

C11_Witness ==
  /\ Synthesized
  /\ TemplateUsed = WildcardDoc
  /\ RemoteContent(item[1]) = "<p>Hi</p>"
  /\ ResultRoute.fields["Title"].jsonValue = [value |-> "Hello world", rendered |-> "<h1/>"]
  /\ ResultRoute.fields["Title"].editable = "<input/>"
  /\ ResultRoute.fields["Content"].value = "<p>Hi</p>"

\* ------------------------------------------------------------------------
\* C12
\* ------------------------------------------------------------------------

\* the contextItem and datasource values of the renderings of a placeholder
\* tree, nested placeholders included
Bindings(phs) ==
  [n \in DOMAIN phs |->
     [j \in DOMAIN phs[n] |->
        [contextItem |-> phs[n][j].contextItem,
         datasource |-> phs[n][j].datasource,
         nested |-> [m \in DOMAIN phs[n][j].placeholders |->
                       [i \in DOMAIN phs[n][j].placeholders[m] |->
                          <<phs[n][j].placeholders[m][i].contextItem,
                            phs[n][j].placeholders[m][i].datasource>>]]]]]

\* document object d is as the Content Client handed it out
AsHandedOut(d) ==
  /\ (store[d].route = << >>) = (d.route = << >>)
  /\ d.route # << >> =>
       /\ store[d].route[1].name = d.route[1].name
       /\ store[d].route[1].itemId = d.route[1].itemId
       /\ store[d].route[1].fields = d.route[1].fields
       /\ Bindings(store[d].route[1].placeholders) = Bindings(d.route[1].placeholders)

\* C12: at every point of the call, and so after it returns, every document
\* the Content Client handed out has the route name, identifier, fields and
\* binding values it was handed out with; the document the call synthesizes
\* is another object.
C12_OriginalNotMutated ==
  /\ \A p \in DOMAIN pages : pages[p].kind = "page" => AsHandedOut(pages[p].page)
  /\ (Done /\ result.kind = "page" /\ item # << >>) => result.page.own = "call"

C12_Witness ==
  /\ Synthesized
  /\ TemplateUsed = WildcardDoc
  /\ AsHandedOut(WildcardDoc)
  /\ ResultRoute.name # WildcardDoc.route[1].name
  /\ ResultRoute.fields["Title"] # WildcardDoc.route[1].fields["Title"]
  /\ Bindings(ResultRoute.placeholders) # Bindings(WildcardDoc.route[1].placeholders)

\* ------------------------------------------------------------------------
\* C13
\* ------------------------------------------------------------------------

\* the structured values of the contextItem and datasource bindings of
\* rendering r
BindingValuesOf(r) ==
  { r.contextItem[k] : k \in DOMAIN r.contextItem }
    \cup { r.datasource[k] : k \in DOMAIN r.datasource }

\* the renderings of the placeholders of a placeholder map
RenderingsOf(phs) ==
  UNION { { phs[n][j] : j \in DOMAIN phs[n] } : n \in DOMAIN phs }

\* the binding values found anywhere in a placeholder tree: in the
\* renderings of its placeholders and in the renderings of the placeholders
\* nested within them
AllBindingValues(phs) ==
  UNION { BindingValuesOf(r) \cup
            UNION { BindingValuesOf(q) : q \in RenderingsOf(r.placeholders) }
          : r \in RenderingsOf(phs) }

\* C13: in every synthesized document, whichever template it was cloned
\* from, every contextItem or datasource binding of every rendering, nested
\* ones included, holds the new title, and none holds the new content.
C13_TitleReachesEveryBinding ==
  Synthesized =>
    /\ \A v \in AllBindingValues(ResultRoute.placeholders) : v = RemoteTitle(item[1])
    /\ RemoteContent(item[1]) \notin {"", RemoteTitle(item[1])} =>
         RemoteContent(item[1]) \notin AllBindingValues(ResultRoute.placeholders)

\* ------------------------------------------------------------------------
\* Vocabulary of the sitemap properties
\* ------------------------------------------------------------------------

SitemapDone == smPc = "done"

\* enhanceSitemapWithWildcardPages was called and has resolved
Enhanced == enhancedSitemap # << >>

\* the remote children the endpoint listed without a transport or query error
RemoteChildren ==
  IF childrenResponse # << >> /\ childrenResponse[1].ok /\ ~childrenResponse[1].errors
       /\ childrenResponse[1].item # << >>
  THEN childrenResponse[1].item[1].children
  ELSE << >>

ChildrenFetchFailed ==
  childrenResponse # << >> /\ (~childrenResponse[1].ok \/ childrenResponse[1].errors)

ProbeThrew == \E p \in DOMAIN pages : pages[p] = Thrown

\* number of pieces of text t equal to piece
CountOf(t, piece) == Cardinality({ k \in DOMAIN t : t[k] = piece })

\* the entity of a reserved character, the character itself otherwise
EntityOf(c) ==
  CASE c = "&" -> <<"&", "a", "m", "p", ";">>
    [] c = "<" -> <<"&", "l", "t", ";">>
    [] c = ">" -> <<"&", "g", "t", ";">>
    [] c = "\"" -> <<"&", "q", "u", "o", "t", ";">>
    [] c = "'" -> <<"&", "a", "p", "o", "s", ";">>
    [] OTHER -> <<c>>

\* text u with each reserved character replaced by its entity, once
Escaped(u) == Join([k \in DOMAIN u |-> EntityOf(u[k])], << >>)

\* the URL the sitemap is to list for the k-th remote child:
\* <base URL>/<site>/en/<prefix segments>/<child name>
ChildUrl(k) ==
  request.protocol \o <<"/", "/">> \o request.host \o <<"/", defaultSite, "/", "en">>
    \o Join([i \in DOMAIN wildcardPrefix |-> <<"/">> \o wildcardPrefix[i]], << >>)
    \o <<"/">> \o RemoteChildren[k].name

\* the texts of the <loc> elements of text t, in order
RECURSIVE LocTexts(_)
LocTexts(t) ==
  IF \A k \in DOMAIN t : t[k] # "<loc>" THEN << >>
  ELSE LET a == CHOOSE i \in DOMAIN t : t[i] = "<loc>" /\ \A j \in 1..(i - 1) : t[j] # "<loc>"
           b == CHOOSE i \in (a + 1)..Len(t) :
                  t[i] = "</loc>" /\ \A j \in (a + 1)..(i - 1) : t[j] # "</loc>"
       IN <<SubSeq(t, a + 1, b - 1)>> \o LocTexts(SubSeq(t, b + 1, Len(t)))

\* ------------------------------------------------------------------------
\* C14
\* ------------------------------------------------------------------------

\* C14: when the target name or the target base path is empty, the sitemap
\* route makes no Content Client probe and sends no remote request, and
\* enhanceSitemapWithWildcardPages resolves to the base sitemap text, piece
\* for piece.
C14_NoConfigurationNoEnrichment ==
  (TARGET_SITE_NAME = "" \/ TARGET_SITE_PATH = << >>) =>
    /\ getPageCalls = << >>
    /\ pages = NoPages
    /\ requests = << >>
    /\ smPc \notin {"import", "probe", "children"}
    /\ Enhanced =>
         /\ enhancedSitemap = <<defaultResponse.body>>
         /\ sitemapResponse.body = defaultResponse.body

C14_Witness ==
  /\ SitemapDone /\ Enhanced
  /\ TARGET_SITE_NAME = "target" /\ TARGET_SITE_PATH = << >>
  /\ defaultSite = "site1"
  /\ edgeConfig.edgeUrl # "" /\ edgeConfig.contextId # ""
  /\ Includes(sitemapXml, <<"</urlset>">>)
  /\ enhancedSitemap = <<sitemapXml>>

\* ------------------------------------------------------------------------
\* C15
\* ------------------------------------------------------------------------

\* C15 as stated: when a Content Client probe throws, the children fetch
\* fails or the request URL cannot be parsed, enhanceSitemapWithWildcardPages
\* resolves to the base sitemap text.
C15_AnyFailureReturnsBase ==
  (Enhanced /\ (ProbeThrew \/ ChildrenFetchFailed \/ ~request.urlOk)) =>
    enhancedSitemap = <<sitemapXml>>

\* C15 amended: enhanceSitemapWithWildcardPages always resolves, to the base
\* text or to the base text with one <url> block per remote child, never to
\* something in between; it resolves to the base text when the children
\* fetch fails or the request URL cannot be parsed; a Content Client probe
\* that throws does not end the enrichment.
C15_BestEffort ==
  /\ (SitemapDone /\ defaultResponse.kind = "response" /\ defaultResponse.textOk)
       => (Enhanced /\ sitemapResponse.kind = "response")
  /\ Enhanced =>
       /\ (ChildrenFetchFailed \/ ~request.urlOk) => enhancedSitemap = <<sitemapXml>>
       /\ \/ enhancedSitemap = <<sitemapXml>>
          \/ /\ CountOf(enhancedSitemap[1], "<url>")
                  = CountOf(sitemapXml, "<url>") + Len(RemoteChildren)
             /\ CountOf(enhancedSitemap[1], "</url>")
                  = CountOf(sitemapXml, "</url>") + Len(RemoteChildren)
             /\ Len(RemoteChildren) > 0
       /\ (ProbeThrew /\ request.urlOk /\ Len(RemoteChildren) > 0) =>
            CountOf(enhancedSitemap[1], "<url>")
              = CountOf(sitemapXml, "<url>") + Len(RemoteChildren)

C15_Witness ==
  /\ Enhanced /\ ChildrenFetchFailed
  /\ childrenResponse[1].item # << >>
  /\ request.urlOk
  /\ Includes(sitemapXml, <<"</urlset>">>)
  /\ enhancedSitemap = <<sitemapXml>>

\* ------------------------------------------------------------------------
\* C16
\* ------------------------------------------------------------------------

\* C16: the text of the <loc> element of every synthesized entry has no raw
\* '<', '>', '"' or apostrophe, every '&' in it starts one of the five
\* entities, and it is the child's URL with each reserved character replaced
\* by its entity exactly once.
C16_LocEscaped ==
  \A k \in DOMAIN wildcardUrlEntries :
    LET loc == LocTexts(wildcardUrlEntries[k])[1]
        entities == { EntityOf(c) : c \in {"&", "<", ">", "\"", "'"} }
    IN /\ Len(LocTexts(wildcardUrlEntries[k])) = 1
       /\ \A i \in DOMAIN loc : loc[i] \notin {"<", ">", "\"", "'"}
       /\ \A i \in DOMAIN loc :
            loc[i] = "&" => \E e \in entities : SubSeq(loc, i, i + Len(e) - 1) = e
       /\ loc = Escaped(ChildUrl(k))

C16_Witness ==
  /\ SitemapDone
  /\ Len(wildcardUrlEntries) = 2
  /\ RemoteChildren[1].name = <<"A", " ", "&", " ", "B">>
  /\ RemoteChildren[2].name = <<"&", "l", "t", ";">>
  /\ Includes(wildcardUrlEntries[1], <<"A", " ", "&", "a", "m", "p", ";", " ", "B">>)
  /\ Includes(wildcardUrlEntries[2], <<"&", "a", "m", "p", ";", "l", "t", ";">>)

\* ------------------------------------------------------------------------
\* C17
\* ------------------------------------------------------------------------

\* the insertion step ran: the base text has the closing tag, the endpoint
\* listed n >= 1 children and the entries were built
Inserted ==
  /\ Enhanced
  /\ Includes(sitemapXml, <<"</urlset>">>)
  /\ Len(RemoteChildren) >= 1
  /\ request.urlOk

\* C17: when the entries are inserted into a base text that has the closing
\* tag, the result has exactly n more <url> blocks; its <loc> texts are
\* those of the base followed by one per child in the order of the
\* children; the result ends with the closing tag, after every block; and
\* the base text before the closing tag is a prefix of the result.
C17_Insertion ==
  Inserted =>
    LET res == enhancedSitemap[1]
        n == Len(RemoteChildren)
        k == CHOOSE i \in DOMAIN sitemapXml :
               sitemapXml[i] = "</urlset>" /\ \A j \in 1..(i - 1) : sitemapXml[j] # "</urlset>"
    IN /\ CountOf(res, "<url>") = CountOf(sitemapXml, "<url>") + n
       /\ CountOf(res, "</url>") = CountOf(sitemapXml, "</url>") + n
       /\ LocTexts(res) = LocTexts(sitemapXml)
                            \o [i \in 1..n |-> Escaped(ChildUrl(i))]
       /\ res[Len(res)] = "</urlset>"
       /\ \A i \in DOMAIN res : res[i] \in {"<url>", "</url>"} => i < Len(res)
       /\ CountOf(res, "</urlset>") = CountOf(sitemapXml, "</urlset>")
       /\ SubSeq(res, 1, k - 1) = SubSeq(sitemapXml, 1, k - 1)

C17_Witness ==
  /\ Inserted
  /\ Len(RemoteChildren) = 2
  /\ CountOf(sitemapXml, "<url>") = 1
  /\ sitemapXml[Len(sitemapXml)] = "\n"
  /\ CountOf(enhancedSitemap[1], "<url>") = 3
  /\ wildcardPrefix = << <<"news">>, <<"posts">> >>

\* ------------------------------------------------------------------------
\* C18
\* ------------------------------------------------------------------------

\* C18 as stated: GET never fails and never answers with an error status of
\* its own; whenever producing or enriching the sitemap fails the response is
\* the base sitemap.
C18_NeverAnErrorStatus ==
  SitemapDone =>
    /\ sitemapResponse.kind = "response"
    /\ sitemapResponse.status # 500

\* C18 amended: once the base sitemap text has been read, GET answers with
\* status 200 and the text enhanceSitemapWithWildcardPages resolved to, which
\* is the base text whenever the children fetch fails or the request URL
\* cannot be parsed; when the default handler yields no response GET answers
\* with status 500; when the default handler throws or its body cannot be
\* read, GET answers with whatever a second call of the default handler
\* yields.
C18_EnrichmentNeverFailsTheRoute ==
  SitemapDone =>
    IF defaultResponse = Null
    THEN sitemapResponse.kind = "response" /\ sitemapResponse.status = 500
    ELSE IF defaultResponse = Thrown \/ ~defaultResponse.textOk
    THEN sitemapResponse \in HandlerOutcomes /\ ~Enhanced
    ELSE /\ sitemapResponse.kind = "response"
         /\ sitemapResponse.status = 200
         /\ Enhanced /\ sitemapResponse.body = enhancedSitemap[1]
         /\ (ChildrenFetchFailed \/ ~request.urlOk) =>
              sitemapResponse.body = defaultResponse.body

C18_Witness ==
  /\ SitemapDone
  /\ defaultResponse.kind = "response" /\ defaultResponse.textOk
  /\ defaultResponse.status = 404
  /\ ChildrenFetchFailed
  /\ sitemapResponse.kind = "response"
  /\ sitemapResponse.status = 200
  /\ sitemapResponse.body = defaultResponse.body


\* ------------------------------------------------------------------------
\* C19: calls in flight at the same time
\* ------------------------------------------------------------------------

\* the arguments and locals of call c, running or suspended
Ctx(c) == IF c = running THEN Context ELSE suspended[c]

Started(c) == c = running \/ c \in DOMAIN suspended

Finished(c) == Started(c) /\ Ctx(c).pc = "done"

\* C19: whatever the interleaving of the calls at their awaits, no call
\* writes into an object of the Content Client, which is all the calls
\* share, so every template is still as it was handed out; and a call
\* returns what the same call returned when it ran with no other call in
\* flight.
C19_NoInterference ==
  /\ \A d \in Docs : store[d] = d
  /\ (Finished("alone") /\ Finished("a")) =>
        /\ Ctx("a").result = Ctx("alone").result
        /\ Ctx("a").status = Ctx("alone").status

\* call "a" waits for the wildcard child of the parent page it holds while
\* call "b", with another remote item, has built its page from that page
C19_Witness ==
  /\ running = "b"
  /\ pc = "done"
  /\ result.kind = "page" /\ result.page.own = "call"
  /\ wildcardPage # << >>
  /\ item # << >>
  /\ suspended["a"].pc = "child"
  /\ suspended["a"].wildcardPage = wildcardPage
  /\ suspended["a"].item # << >>
  /\ suspended["a"].item # item


\* ------------------------------------------------------------------------
\* C20: path sanitization
\* ------------------------------------------------------------------------

\* a segment the sanitizer is to drop: empty, with a dot, starting with the
\* reserved probe prefix '.well-known', or on the deny-list (the file name
\* com.chrome.devtools.json, anything with 'devtools' or 'chrome' in it)
Dropped(segment) ==
  \/ segment = << >>
  \/ \E k \in DOMAIN segment : segment[k] = "."
  \/ (Len(segment) >= 2 /\ segment[1] = "." /\ segment[2] = "well-known")
  \/ segment = <<"com", ".", "chrome", ".", "devtools", ".", "json">>
  \/ \E k \in DOMAIN segment : segment[k] \in {"devtools", "chrome"}

KeptPositions == { i \in DOMAIN path : ~Dropped(path[i]) }

\* the k-th position that is kept, counting from the left
KeptPosition(k) ==
  CHOOSE i \in KeptPositions : Cardinality({ j \in KeptPositions : j <= i }) = k

PlausibleLanguage(l) == l \in {"en", "da"}

\* the locale the lookups and queries of the call are to carry
ExpectedLocale ==
  IF locale \in {"", "undefined"} \/ ~PlausibleLanguage(locale) THEN "en" ELSE locale

\* C21: every Content Client lookup and every remote query of the call
\* carries 'en' when the input locale is absent, is the marker 'undefined'
\* or is no plausible language code, and the input locale otherwise.
C21_LocaleNormalized ==
  /\ \A k \in DOMAIN getPageCalls : getPageCalls[k].locale = ExpectedLocale
  /\ \A k \in DOMAIN requests : requests[k].language = ExpectedLocale


\* ------------------------------------------------------------------------
\* C22: precedence of the template candidates
\* ------------------------------------------------------------------------

\* the remote item has been found and the probing for a template has ended:
\* with a template, which ends the call, or without one
TemplateProbingEnded ==
  /\ item # << >>
  /\ \/ pc = "getParent"
     \/ pc = "done" /\ wildcardPage # << >>

\* the lookups made before the remote item was fetched: the direct one and
\* those of the discovery, which stops at its first document
LookupsBeforeItem ==
  1 + (IF AnsweredPage(DiscoveryPaths(finalPath)[1]) THEN 1
       ELSE IF AnsweredPage(DiscoveryPaths(finalPath)[2]) THEN 2 ELSE 3)

\* the paths requested while probing for a template, in order
TemplateProbes ==
  [k \in 1..(Len(getPageCalls) - LookupsBeforeItem) |->
     getPageCalls[LookupsBeforeItem + k].path]

\* C22: the candidates are requested in the order [firstSegment, '*'],
\* ['*'], [firstSegment]; the first of them that yields a document whose
\* name is '*' or whose path contains '*' is the template and ends the
\* probing; a document at [firstSegment] that is not named '*' only serves to
\* probe [firstSegment, '*'], which is the template only if it yields a
\* document named '*'; otherwise there is no template.
C22_TemplatePrecedence ==
  TemplateProbingEnded =>
    LET c1 == FirstWildcard
        c2 == <<STAR>>
        c3 == ParentOfRequest
    IN IF AnsweredPage(c1)
       THEN wildcardPage = <<pages[c1].page>> /\ TemplateProbes = <<c1>>
       ELSE IF AnsweredPage(c2)
       THEN wildcardPage = <<pages[c2].page>> /\ TemplateProbes = <<c1, c2>>
       ELSE IF AnsweredPage(c3) /\ RouteName(pages[c3].page) = "*"
       THEN wildcardPage = <<pages[c3].page>> /\ TemplateProbes = <<c1, c2, c3>>
       ELSE IF AnsweredPage(c3)
       THEN /\ TemplateProbes = <<c1, c2, c3, c1>>
            /\ wildcardPage = << >>
       ELSE wildcardPage = << >> /\ TemplateProbes = <<c1, c2, c3>>


\* C22 amended: as C22, except that a document at [firstSegment] that is not
\* named '*' is itself the template when the probe of [firstSegment, '*']
\* beneath it yields no document named '*'.
C22_TemplatePrecedenceParentKept ==
  TemplateProbingEnded =>
    LET c1 == FirstWildcard
        c2 == <<STAR>>
        c3 == ParentOfRequest
    IN IF AnsweredPage(c1)
       THEN wildcardPage = <<pages[c1].page>> /\ TemplateProbes = <<c1>>
       ELSE IF AnsweredPage(c2)
       THEN wildcardPage = <<pages[c2].page>> /\ TemplateProbes = <<c1, c2>>
       ELSE IF AnsweredPage(c3) /\ RouteName(pages[c3].page) = "*"
       THEN wildcardPage = <<pages[c3].page>> /\ TemplateProbes = <<c1, c2, c3>>
       ELSE IF AnsweredPage(c3)
       THEN /\ TemplateProbes = <<c1, c2, c3, c1>>
            /\ wildcardPage = <<pages[c3].page>>
       ELSE wildcardPage = << >> /\ TemplateProbes = <<c1, c2, c3>>

C22_Witness ==
  /\ TemplateProbingEnded
  /\ Synthesized
  /\ Answered(FirstWildcard, Null)
  /\ Answered(<<STAR>>, Null)
  /\ Answered(ParentOfRequest, PageOf(ParentDoc))
  /\ wildcardPage = <<ParentDoc>>
  /\ TemplateProbes = <<FirstWildcard, <<STAR>>, ParentOfRequest, FirstWildcard>>


\* ------------------------------------------------------------------------
\* C23: the path of the remote item
\* ------------------------------------------------------------------------

\* C23: the item query carries the configured base path, '/', and the last
\* segment of the sanitized path (its only segment when there is just one),
\* whatever the segments before it.
C23_RemotePathFromLastSegment ==
  \A k \in DOMAIN requests :
    requests[k].query = "GetItemWithFields" =>
      /\ finalPath # << >>
      /\ requests[k].path = TARGET_SITE_PATH \o <<"/">> \o finalPath[Len(finalPath)]

C23_Witness ==
  /\ Len(finalPath) = 3
  /\ Len(requests) = 1
  /\ requests[1].query = "GetItemWithFields"
  /\ requests[1].path = <<"/sitecore/content/target/Home/blog", "/", "more">>


\* ------------------------------------------------------------------------
\* C24: order of the tiers, repeated lookups
\* ------------------------------------------------------------------------

\* the paths of the Content Client lookups of the call, in order
LookupPaths == [k \in DOMAIN getPageCalls |-> getPageCalls[k].path]

\* how many lookups of the call asked for path p
TimesRequested(p) == Cardinality({ k \in DOMAIN getPageCalls : getPageCalls[k].path = p })

ItemQueries == { k \in DOMAIN requests : requests[k].query = "GetItemWithFields" }

\* the lookups each tier can make for sanitized path fp, in its order
DirectLookups(fp) == <<fp>>

DiscoveryLookups(fp) ==
  << <<fp[1], <<"*">>>>,
     << <<"*">> >>,
     IF Len(fp) > 1 THEN Append(SubSeq(fp, 1, Len(fp) - 1), <<"*">>) ELSE << <<"*">> >> >>

TemplateLookups(fp) ==
  << <<fp[1], <<"*">>>>, << <<"*">> >>, <<fp[1]>>, <<fp[1], <<"*">>>> >>

AncestorLookups(fp) == << <<fp[1]>>, << >> >>

\* the lookups of the call are a run of direct, then discovery, then
\* template and then ancestor lookups, each tier entered once and walking
\* its list from the front; the template and ancestor lookups come with the
\* one item query of the call
TiersInOrder ==
  IF finalPath = << >>
  THEN LookupPaths \in {<< >>, << << >> >>} /\ ItemQueries = {}
  ELSE /\ Cardinality(ItemQueries) <= 1
       /\ \E a \in 0..1, b \in 0..3, c \in 0..4, e \in 0..2 :
            /\ LookupPaths = SubSeq(DirectLookups(finalPath), 1, a)
                               \o SubSeq(DiscoveryLookups(finalPath), 1, b)
                               \o SubSeq(TemplateLookups(finalPath), 1, c)
                               \o SubSeq(AncestorLookups(finalPath), 1, e)
            /\ b > 0 => a = 1
            /\ c > 0 => (b > 0 /\ ItemQueries # {})
            /\ e > 0 => c >= 3

\* C24: the tiers run in their order and no path is requested from the
\* Content Client more than once in a call.
C24_NoLookupTwice ==
  /\ TiersInOrder
  /\ \A p \in Paths \cup { LookupPaths[k] : k \in DOMAIN LookupPaths } : TimesRequested(p) <= 1

\* C24 amended: the tiers run in their order, each entered once, with one
\* item query at most; a path that more than one tier has on its list is
\* requested again by the later tier, four times at most.
C24_TiersOnceLookupsRepeated ==
  /\ TiersInOrder
  /\ \A k \in DOMAIN LookupPaths : TimesRequested(LookupPaths[k]) <= 4

C24_Witness ==
  /\ Synthesized
  /\ Len(finalPath) = 2
  /\ TimesRequested(<<finalPath[1], <<"*">>>>) = 4
  /\ TimesRequested(<< <<"*">> >>) = 2
  /\ TimesRequested(<<finalPath[1]>>) = 1


\* ------------------------------------------------------------------------
\* C25: remote requests of one call
\* ------------------------------------------------------------------------

\* C25: a call sends one request to the remote endpoint at most, whichever
\* way it takes through the tiers; an item query that fails is not sent
\* again, and the call then returns nothing.
C25_NoRemoteRetry ==
  /\ Len(requests) <= 1
  /\ (Done /\ RemoteFetchFailed) => (Len(requests) = 1 /\ result = Null)

C25_Witness ==
  /\ Done
  /\ RemoteFetchFailed
  /\ ~endpoint.ok
  /\ Len(requests) = 1
  /\ Len(getPageCalls) = 4


\* ------------------------------------------------------------------------
\* C26: the synthesized document shares no object with its template
\* ------------------------------------------------------------------------

\* the renderings of a placeholder tree, nested ones included
AllRenderings(phs) ==
  RenderingsOf(phs) \cup UNION { RenderingsOf(r.placeholders) : r \in RenderingsOf(phs) }

\* the objects of the route's field mapping that the Content Client built
SharedFields(d) == { f \in DOMAIN d.route[1].fields : d.route[1].fields[f].own = "client" }

\* the renderings of the document that the Content Client built
SharedRenderings(d) == { r \in AllRenderings(d.route[1].placeholders) : r.own = "client" }

\* C26: no object of a synthesized document, neither the document, nor a
\* field of its route, nor a rendering at any depth, is an object the
\* Content Client built.
C26_NoSharedObject ==
  Synthesized =>
    /\ result.page.own = "call"
    /\ SharedFields(result.page) = {}
    /\ SharedRenderings(result.page) = {}


\* ------------------------------------------------------------------------
\* C27: fields the remote item has no value for
\* ------------------------------------------------------------------------

\* the data of a field object
FieldData(f) == [k \in DOMAIN f \ {"own"} |-> f[k]]

\* field name is in the result as it is in the template: with the same data,
\* or in neither
SameAsTemplate(name) ==
  LET original == TemplateUsed.route[1].fields
      fields == ResultRoute.fields
  IN /\ (name \in DOMAIN fields) = (name \in DOMAIN original)
     /\ name \in DOMAIN original => FieldData(fields[name]) = FieldData(original[name])

NoRemoteTitle == RemoteTitleField(item[1]) \in {<< >>, <<"">>}

NoRemoteContent == RemoteContent(item[1]) = ""

OtherFieldsUntouched ==
  /\ DOMAIN ResultRoute.fields \ {"Title", "Content"}
       = DOMAIN TemplateUsed.route[1].fields \ {"Title", "Content"}
  /\ \A name \in DOMAIN TemplateUsed.route[1].fields \ {"Title", "Content"} :
       SameAsTemplate(name)

\* C27: in a synthesized document the Title field is the template's when
\* the remote item has no title value, the Content field is the template's
\* when it has no content value, and every other field is the template's.
C27_AbsentFieldsUntouched ==
  Synthesized =>
    /\ NoRemoteTitle => SameAsTemplate("Title")
    /\ NoRemoteContent => SameAsTemplate("Content")
    /\ OtherFieldsUntouched

\* C27 amended: the Content field is the template's when the remote item has
\* no content value and every field other than Title and Content is the
\* template's; when the remote item has no title value the Title field holds
\* the name of the remote item in both representations, with the other keys
\* of the template's Title field.
C27_AbsentContentUntouchedTitleFromName ==
  Synthesized =>
    /\ NoRemoteTitle =>
         /\ "Title" \in DOMAIN ResultRoute.fields
         /\ BothRepresentations(ResultRoute.fields["Title"], item[1].name)
         /\ "Title" \in DOMAIN TemplateUsed.route[1].fields =>
              EnvelopePreserved(TemplateUsed.route[1].fields["Title"],
                                ResultRoute.fields["Title"])
    /\ NoRemoteContent => SameAsTemplate("Content")
    /\ OtherFieldsUntouched

C27_Witness ==
  /\ Synthesized
  /\ TemplateUsed = WildcardDoc
  /\ item[1].id = "{R2}"
  /\ NoRemoteTitle /\ NoRemoteContent
  /\ ResultRoute.fields["Title"].value = "post-2"
  /\ ResultRoute.fields["Title"].editable = "<input/>"
  /\ ResultRoute.fields["Content"] = ContentFieldFull
  /\ ResultRoute.fields["Date"] = DateField


\* ------------------------------------------------------------------------
\* C28: the empty sanitized path
\* ------------------------------------------------------------------------

\* the request is not rejected and no segment of its path is kept
NothingKept == ~SystemRequest /\ KeptPositions = {}

\* C28: when no segment is kept the call makes one lookup, of the root path
\* [], sends no remote request, and returns what the lookup yields: the
\* document as it is, or nothing (also when the lookup throws).
C28_EmptyPathIsRoot ==
  NothingKept =>
    /\ requests = << >>
    /\ Len(getPageCalls) <= 1
    /\ \A k \in DOMAIN getPageCalls : getPageCalls[k].path = << >>
    /\ Done =>
         /\ Len(getPageCalls) = 1
         /\ status = "returned"
         /\ result = IF pages[<< >>] = Thrown THEN Null ELSE pages[<< >>]

C28_Witness ==
  /\ Done
  /\ NothingKept
  /\ path = << <<"robots", ".", "txt">>, << >>, <<"sitemap", ".", "xml">> >>
  /\ getPageCalls = << [path |-> << >>, site |-> "site1", locale |-> "da"] >>
  /\ result = PageOf(WildcardDoc)


\* ------------------------------------------------------------------------
\* C29: where the entries are spliced in
\* ------------------------------------------------------------------------

\* entries were made for the remote children and put into the base text
Spliced ==
  /\ Enhanced
  /\ Len(RemoteChildren) >= 1
  /\ request.urlOk

\* the position of the first closing tag of text t
ClosingTagAt(t) ==
  CHOOSE i \in DOMAIN t : t[i] = "</urlset>" /\ \A j \in 1..(i - 1) : t[j] # "</urlset>"

\* C29: the result is the base text with the entries put in at the closing
\* tag, or at the end when there is none: the base text before the tag
\* begins the result, and the tag with the base text after it ends the
\* result.
C29_SplicePosition ==
  Spliced =>
    LET res == enhancedSitemap[1]
        base == sitemapXml
    IN IF Includes(base, <<"</urlset>">>)
       THEN LET k == ClosingTagAt(base)
                tail == SubSeq(base, k, Len(base))
            IN /\ Len(res) > Len(base)
               /\ SubSeq(res, 1, k - 1) = SubSeq(base, 1, k - 1)
               /\ SubSeq(res, Len(res) - Len(tail) + 1, Len(res)) = tail
       ELSE /\ Len(res) > Len(base)
            /\ SubSeq(res, 1, Len(base)) = base


\* ------------------------------------------------------------------------
\* C30: the location of a remote child
\* ------------------------------------------------------------------------

\* the location of the k-th remote child before escaping: scheme and host
\* of the request, '/', and site, 'en', the prefix segments and the name of
\* the child joined by '/'
ExpectedLocation(k) ==
  request.protocol \o <<"/", "/">> \o request.host \o <<"/">>
    \o Join(<< <<defaultSite>>, <<"en">> >> \o wildcardPrefix \o <<RemoteChildren[k].name>>,
            <<"/">>)

\* C30: there is one entry per remote child, in the order of the children;
\* the <loc> of the k-th entry is the escaped expected location of the k-th
\* child; and the locations of the result are those of the base followed by
\* these, whether the base has a closing tag or not.
C30_UrlConstruction ==
  Spliced =>
    /\ Len(wildcardUrlEntries) = Len(RemoteChildren)
    /\ \A k \in DOMAIN wildcardUrlEntries :
         LocTexts(wildcardUrlEntries[k]) = <<Escaped(ExpectedLocation(k))>>
    /\ LocTexts(enhancedSitemap[1]) =
         LocTexts(sitemapXml) \o [k \in DOMAIN RemoteChildren |-> Escaped(ExpectedLocation(k))]

C30_Witness ==
  /\ Spliced
  /\ wildcardPrefix = << >>
  /\ Len(RemoteChildren) = 2
  /\ RemoteChildren[1] = RemoteChildren[2]
  /\ ~Includes(sitemapXml, <<"</urlset>">>)
  /\ LocTexts(wildcardUrlEntries[2]) =
       << <<"https:", "/", "/", "example.com", "/", "site1", "/", "en", "/", "post-1">> >>


\* --------------------------------------------------------------------------
\* C31  wildcard prefix determination (getWildcardPathPrefix)
\* --------------------------------------------------------------------------

\* getWildcardPathPrefix has returned: the route went past part_000 line 83
PrefixReturned ==
  \/ smPc = "children"
  \/ /\ Enhanced
     /\ TARGET_SITE_NAME # "" /\ TARGET_SITE_PATH # << >> /\ defaultSite # ""
     /\ (getPageCalls # << >> \/ (WILDCARD_PATH_PREFIX # <<"blog">> /\ EnvPrefix # << >>))

\* the value getWildcardPathPrefix returned
ReturnedPrefix == wildcardPrefix

\* the paths getWildcardPathPrefix asked the Content Client for, in order
ProbedPaths == [k \in DOMAIN getPageCalls |-> getPageCalls[k].path]

\* an override is configured: the prefix is not the default 'blog'
OverrideConfigured == WILDCARD_PATH_PREFIX # <<"blog">>

\* the override has at least one non-empty segment
OverrideWithSegments == OverrideConfigured /\ EnvPrefix # << >>

\* the probe of candidate p was answered with a document named '*'
ProbeFoundWildcard(p) ==
  /\ p \in DOMAIN pages
  /\ pages[p].kind = "page"
  /\ RouteName(pages[p].page) = "*"

FirstCandidate == <<WILDCARD_PATH_PREFIX, STAR>>

SecondCandidate == <<STAR>>

\* the answer of the probing branch: the segments before '*' of the first
\* candidate answered with a document named '*', [configuredPrefix] otherwise
ProbingAnswer ==
  IF ProbeFoundWildcard(FirstCandidate)
  THEN ProbedPaths = <<FirstCandidate>> /\ ReturnedPrefix = <<WILDCARD_PATH_PREFIX>>
  ELSE /\ ProbedPaths = <<FirstCandidate, SecondCandidate>>
       /\ ReturnedPrefix = IF ProbeFoundWildcard(SecondCandidate)
                           THEN << >>
                           ELSE <<WILDCARD_PATH_PREFIX>>

\* C31 (as stated): whenever an override is configured the function returns
\* its segments without probing; otherwise it probes [configuredPrefix,'*']
\* and ['*'] in that order and returns the segments before '*' of the first
\* candidate whose document is named '*'; when no probe yields such a
\* document, or a probe throws, it returns [configuredPrefix].
C31_PrefixDetermination ==
  PrefixReturned =>
    /\ OverrideConfigured => (ReturnedPrefix = EnvPrefix /\ ProbedPaths = << >>)
    /\ ~OverrideConfigured => ProbingAnswer
    /\ (~OverrideConfigured /\ ProbeThrew) => ReturnedPrefix = <<WILDCARD_PATH_PREFIX>>

\* C31 (amended): an override with at least one non-empty segment is
\* returned split into its segments without probing; otherwise (the default
\* 'blog', or an override without segments such as '/') the function probes
\* [configuredPrefix,'*'] and then ['*'], a probe that throws counting as one
\* that found no wildcard document, and returns the segments before '*' of
\* the first candidate whose document is named '*', or [configuredPrefix]
\* when neither probe yields one.
C31_PrefixDeterminationThrowSkipped ==
  PrefixReturned =>
    /\ OverrideWithSegments => (ReturnedPrefix = EnvPrefix /\ ProbedPaths = << >>)
    /\ ~OverrideWithSegments => ProbingAnswer
    /\ \A k \in DOMAIN getPageCalls :
         getPageCalls[k].site = defaultSite /\ getPageCalls[k].locale = "en"

\* the first probe threw and the second found the wildcard page: [] returned
C31_Witness ==
  /\ PrefixReturned
  /\ ~OverrideWithSegments
  /\ Answered(FirstCandidate, Thrown)
  /\ ProbeFoundWildcard(SecondCandidate)
  /\ ReturnedPrefix = << >>


\* ------------------------------------------------------------------------
\* makeGraphQLRequest on its own (lines 168-194, part_002 lines 81-101)
\* ------------------------------------------------------------------------
\* The two copies of the function are the same from the fetch on. Here the
\* function is called several times in a row, each call with its own answer
\* of the transport; endpoint is the answer to the call in progress.

MaxRequests == 2

\* a response envelope: data and errors, each present or not
Envelope(data, errors) == [data |-> data, errors |-> errors]

\* what the awaited fetch settles with: a rejection (no response at all) or
\* a response with status, status text, body text, and the envelope the body
\* parses to (none when the body is not JSON)
HttpResponse(st, statusText, text, json) ==
  [kind |-> "response", status |-> st, statusText |-> statusText,
   text |-> text, json |-> json]

FetchRejected == [kind |-> "reject"]

FetchOutcomes ==
  { FetchRejected,
    HttpResponse(200, "OK", "{data:{item:R1}}",
                 <<Envelope(<<[item |-> <<"R1">>]>>, << >>)>>),
    HttpResponse(200, "OK", "{data:{item:null}}",
                 <<Envelope(<<[item |-> << >>]>>, << >>)>>),
    HttpResponse(200, "OK", "{data:{item:null},errors:[e1]}",
                 <<Envelope(<<[item |-> << >>]>>, <<"e1">>)>>),
    HttpResponse(201, "Created", "{errors:[e1,e2]}",
                 <<Envelope(<< >>, <<"e1", "e2">>)>>),
    HttpResponse(200, "OK", "<html>", << >>),
    HttpResponse(401, "Unauthorized", "denied", << >>),
    HttpResponse(500, "Internal Server Error", "{errors:[e1]}",
                 <<Envelope(<< >>, <<"e1">>)>>),
    HttpResponse(404, "Not Found", "", << >>) }

\* Response.ok: the status is in the range 200-299
Ok(response) == response.status >= 200 /\ response.status <= 299

\* the errors thrown and the value returned by makeGraphQLRequest
RequestFailed(st, statusText, errorText) ==
  [kind |-> "throw", error |-> "GraphQL request failed",
   status |-> st, statusText |-> statusText, body |-> errorText]

GraphQLErrors(errors) ==
  [kind |-> "throw", error |-> "GraphQL errors", errors |-> errors]

Rejected(by) == [kind |-> "throw", error |-> by]

Data(data) == [kind |-> "data", data |-> data]

RemoteQueries == {"GetItemWithFields", "GetChildrenByPath"}

InitRemote ==
  /\ RemoteIdle
  /\ SitemapIdle
  /\ SingleCall
  /\ path = << >>
  /\ site = "site1"
  /\ locale = "en"
  /\ TARGET_SITE_NAME = "target"
  /\ TARGET_SITE_PATH = <<"/sitecore/content/target/Home/blog">>
  /\ edgeConfig = [edgeUrl |-> "https://edge.sitecorecloud.io", contextId |-> "ctx-1234"]
  /\ endpoint \in FetchOutcomes
  /\ pages = NoPages
  /\ store = [d \in Docs |-> d]
  /\ pc = "post"
  /\ finalPath = << >>
  /\ finalLocale = ""
  /\ page = << >>
  /\ discovered = << >>
  /\ idx = 0
  /\ item = << >>
  /\ wildcardPage = << >>
  /\ getPageCalls = << >>
  /\ requests = << >>
  /\ result = Null
  /\ status = "running"

\* the call settles with outcome o
Settle(o) ==
  /\ result' = o
  /\ status' = IF o.kind = "throw" THEN "threw" ELSE "returned"
  /\ calls' = Append(calls, [response |-> endpoint, outcome |-> o])
  /\ pc' = "settled"

\* the call going on to parse the body whatever the status is
RemoteFetch_noStatusCheck ==
  /\ pc = "post"
  /\ \E q \in RemoteQueries : Post(q, TARGET_SITE_PATH, "en")
  /\ IF endpoint = FetchRejected
     THEN Settle(Rejected("fetch"))
     ELSE Goto("json") /\ UNCHANGED calls
  /\ UNCHANGED <<scheduler, sitemap, args, config, locals, pages, store, getPageCalls>>

\* lines 168-179 (part_002 lines 81-90): await fetch and the status check
RemoteFetch ==
  /\ pc = "post"
  /\ \E q \in RemoteQueries : Post(q, TARGET_SITE_PATH, "en")
  /\ IF endpoint = FetchRejected
     THEN Settle(Rejected("fetch"))
     ELSE IF ~Ok(endpoint)
     THEN Goto("errorText") /\ UNCHANGED calls
     ELSE Goto("json") /\ UNCHANGED calls
  /\ UNCHANGED <<scheduler, sitemap, args, config, locals, pages, store, getPageCalls>>

\* lines 180-184 (part_002 lines 91-93): await response.text() and the throw
RemoteErrorText ==
  /\ pc = "errorText"
  /\ Settle(RequestFailed(endpoint.status, endpoint.statusText, endpoint.text))
  /\ UNCHANGED <<scheduler, sitemap, args, config, locals, pages, store, getPageCalls,
                 requests>>

\* lines 186-194 (part_002 lines 95-101): await response.json(), the test
\* of result.errors and the return of result.data
RemoteJson ==
  /\ pc = "json"
  /\ IF endpoint.json = << >>
     THEN Settle(Rejected("json"))
     ELSE IF endpoint.json[1].errors # << >>
     THEN Settle(GraphQLErrors(endpoint.json[1].errors))
     ELSE Settle(Data(endpoint.json[1].data))
  /\ UNCHANGED <<scheduler, sitemap, args, config, locals, pages, store, getPageCalls,
                 requests>>

\* the next call of the function: a caller awaits it again (line 344,
\* line 827, part_002 line 125), the transport answering as it likes
RemoteCallAgain ==
  /\ pc = "settled"
  /\ Len(calls) < MaxRequests
  /\ endpoint' \in FetchOutcomes
  /\ pc' = "post"
  /\ result' = Null
  /\ status' = "running"
  /\ UNCHANGED <<scheduler, sitemap, args, TARGET_SITE_NAME, TARGET_SITE_PATH, edgeConfig,
                 locals, pages, store, getPageCalls, requests, calls>>

NextRemote ==
  \/ RemoteFetch
  \/ RemoteErrorText
  \/ RemoteJson
  \/ RemoteCallAgain

SpecRemote == InitRemote /\ [][NextRemote]_vars

\* --------------------------------------------------------------------------
\* C32  remote error translation
\* --------------------------------------------------------------------------

TransportFailure(o) == o.kind = "throw" /\ o.error = "GraphQL request failed"

QueryError(o) == o.kind = "throw" /\ o.error = "GraphQL errors"

HasResponse(c) == c.response.kind = "response"

CarriesErrors(c) == c.response.json # << >> /\ c.response.json[1].errors # << >>

\* C32: a call fails with a transport failure carrying the status and the
\* body exactly when the transport returned a non-success status; it fails
\* with a query error exactly when the status is a success and the envelope
\* carries errors; with a success status and an envelope without errors it
\* returns the envelope's data; and each call is settled by its own response
\* alone, one request per call, whatever the calls before it were.
C32_RemoteErrorTranslation ==
  /\ Len(requests) = Len(calls) + (IF pc \in {"errorText", "json"} THEN 1 ELSE 0)
  /\ \A k \in DOMAIN calls :
       LET c == calls[k]
       IN /\ TransportFailure(c.outcome) <=> (HasResponse(c) /\ ~Ok(c.response))
          /\ TransportFailure(c.outcome) =>
               /\ c.outcome.status = c.response.status
               /\ c.outcome.body = c.response.text
          /\ QueryError(c.outcome) <=>
               (HasResponse(c) /\ Ok(c.response) /\ CarriesErrors(c))
          /\ (HasResponse(c) /\ Ok(c.response) /\ c.response.json # << >>
                /\ ~CarriesErrors(c)) =>
               c.outcome = Data(c.response.json[1].data)
  /\ \A k, l \in DOMAIN calls :
       calls[k].response = calls[l].response => calls[k].outcome = calls[l].outcome

\* a non-success answer whose body is an envelope with errors is a transport
\* failure, and the call after it returns the data of its own answer
C32_Witness ==
  /\ Len(calls) = 2
  /\ HasResponse(calls[1])
  /\ calls[1].response.status = 500
  /\ CarriesErrors(calls[1])
  /\ TransportFailure(calls[1].outcome)
  /\ calls[2].outcome = Data(<<[item |-> <<"R1">>]>>)


\* --------------------------------------------------------------------------
\* C33  termination and the number of collaborator calls
\* --------------------------------------------------------------------------

\* every awaited collaborator call settles: a call that can take a step
\* takes one
SpecTerminating == Spec /\ WF_vars(Next)

\* C33: every call of resolvePageWithWildcard comes to its end, provided
\* each awaited collaborator call returns or throws, and it never issues
\* more than 9 Content Client lookups nor more than 1 remote request.
C33_Termination ==
  /\ <>Done
  /\ [](Len(getPageCalls) <= 9 /\ Len(requests) <= 1)

\* a call that used all nine lookups and the remote request, and ended
C33_Witness ==
  /\ Done
  /\ Len(getPageCalls) = 9
  /\ Len(requests) = 1


\* --------------------------------------------------------------------------
\* C34  no unenriched template is returned
\* --------------------------------------------------------------------------

\* the call returned a document
ReturnedDocument == Done /\ result.kind = "page"

\* (a) the returned document is the very one the Content Client answered
\* the sanitized request path with
DirectDocument ==
  /\ result.page.own = "client"
  /\ Answered(finalPath, PageOf(result.page))
  /\ getPageCalls[1].path = finalPath
  /\ finalPath # << >> => RouteName(result.page) # "*"

\* (b) the returned document is a copy made during the call, named and
\* identified as the item the remote endpoint answered this call with
EnrichedClone ==
  /\ result.page.own = "call"
  /\ Len(requests) = 1
  /\ requests[1].query = "GetItemWithFields"
  /\ RemoteItem # << >>
  /\ RemoteItem = item
  /\ RouteName(result.page) = item[1].name
  /\ RouteItemId(result.page) = item[1].id

\* C34: every document resolvePageWithWildcard returns is either the
\* document answered for the sanitized request path itself (never one named
\* '*' when the path is not empty) or a clone carrying the name and id of
\* the remote item fetched during the call; no template comes back as it is.
C34_NoUnenrichedTemplate ==
  ReturnedDocument => (DirectDocument \/ EnrichedClone)

\* a wildcard template was found and what came back is the clone named
\* after the remote item
C34_Witness ==
  /\ ReturnedDocument
  /\ EnrichedClone
  /\ wildcardPage # << >>
  /\ RouteName(wildcardPage[1]) = "*"
  /\ RouteName(result.page) # "*"


\* --------------------------------------------------------------------------
\* C35  the title falls back to the item's name
\* --------------------------------------------------------------------------

\* the values of the bindings the overlay rewrites: those of the renderings
\* of the top-level placeholders, when the template came from the template
\* loop; the overlay onto the parent or root page rewrites none
UpdatedBindingValues ==
  IF wildcardPage # << >>
  THEN UNION { BindingValuesOf(r) : r \in RenderingsOf(ResultRoute.placeholders) }
  ELSE {}

\* C35: in a synthesized document whose remote item has no Title/title field
\* or an empty one, Title.value, Title.jsonValue.value and every rewritten
\* binding hold the item's name; the Title of a synthesized document is
\* always the remote title or name, not the template's; and with an empty or
\* missing remote Content the Content field is the template's.
C35_TitleFallsBackToName ==
  Synthesized =>
    /\ "Title" \in DOMAIN ResultRoute.fields
    /\ BothRepresentations(ResultRoute.fields["Title"], RemoteTitle(item[1]))
    /\ NoRemoteTitle =>
         /\ BothRepresentations(ResultRoute.fields["Title"], item[1].name)
         /\ \A v \in UpdatedBindingValues : v = item[1].name
    /\ NoRemoteContent => SameAsTemplate("Content")

\* an item without any field, overlaid onto the wildcard template: title and
\* bindings hold its name, the Content field is the template's
C35_Witness ==
  /\ Synthesized
  /\ TemplateUsed = WildcardDoc
  /\ item[1].fields = << >>
  /\ ResultRoute.fields["Title"].value = "post-4"
  /\ ResultRoute.fields["Title"].value # WildcardDoc.route[1].fields["Title"].value
  /\ "post-4" \in UpdatedBindingValues
  /\ FieldData(ResultRoute.fields["Content"]) = FieldData(ContentFieldFull)


\* --------------------------------------------------------------------------
\* C36  the discovery step does not influence the result
\* --------------------------------------------------------------------------

\* the direct lookup of a non-empty sanitized path returned nothing and no
\* collaborator call threw
DirectMissNoThrow ==
  /\ Done /\ ~SystemRequest
  /\ finalPath # << >>
  /\ Answered(finalPath, Null)
  /\ ~ContentClientThrew
  /\ ~(requests # << >> /\ GraphQLResult(endpoint) = Thrown)

\* the template queryTargetSiteAndCreatePage ends up with: the one its
\* template loop kept, else the parent page, else the root page
QueryTemplate ==
  IF wildcardPage # << >> THEN wildcardPage
  ELSE IF AnsweredPage(ParentPath(finalPath)) THEN <<pages[ParentPath(finalPath)].page>>
  ELSE IF AnsweredPage(<< >>) THEN <<pages[<< >>].page>>
  ELSE << >>

\* what queryTargetSiteAndCreatePage returns, from its own configuration,
\* remote answer and template
QueryReturn ==
  IF ~TargetQueryEnabled \/ RemoteItem = << >> \/ QueryTemplate = << >> THEN Null
  ELSE IF QueryTemplate[1].route = << >> THEN Null
  ELSE IF wildcardPage # << >>
  THEN PageOf(CreatePageFromWildcard(QueryTemplate[1], RemoteItem[1],
                                     TitleOf(RemoteItem[1]), ContentOf(RemoteItem[1])))
  ELSE PageOf(CreatePageFromAncestor(QueryTemplate[1], RemoteItem[1],
                                     TitleOf(RemoteItem[1]), ContentOf(RemoteItem[1])))

\* discovery found a page that has an item id
DiscoveryFound == discovered # << >> /\ RouteItemId(discovered[1]) # ""

\* C36: after a direct lookup that returned nothing, and no collaborator call
\* throwing, the returned value is what queryTargetSiteAndCreatePage returns
\* when the target is configured and nothing otherwise, whatever the
\* discovery loop found; and the step taken after the discovery loop is the
\* same one whether the loop found a page or none.
C36_DiscoveryDoesNotInfluence ==
  /\ [](DirectMissNoThrow =>
          result = IF TargetConfigured THEN QueryReturn ELSE Null)
  /\ [][\A d \in Docs : AfterDiscovery(<<d>>) <=> AfterDiscovery(<< >>)]_vars

\* discovery found a page with an item id and the call returned the document
\* queryTargetSiteAndCreatePage made
C36_Witness ==
  /\ DirectMissNoThrow
  /\ DiscoveryFound
  /\ TargetConfigured
  /\ result.kind = "page"
  /\ result = QueryReturn


\* --------------------------------------------------------------------------
\* C37  a Content Client exception ends resolution with nothing
\* --------------------------------------------------------------------------

\* C37: when the Content Client throws for a path the call requests (and
\* throws for it every time it is asked), the call returns nothing and
\* raises nothing, whether or not the remote item exists and another
\* template could have been found.
C37_ContentClientThrowEndsWithNothing ==
  (Done /\ ContentClientThrew) => (result = Null /\ status = "returned")

\* the remote item was fetched, the lookup of the parent threw inside the
\* template loop and again as the parent lookup; the root page was never
\* asked for and nothing was returned
C37_Witness ==
  /\ Done
  /\ item # << >>
  /\ Len(finalPath) > 1
  /\ Answered(ParentPath(finalPath), Thrown)
  /\ TimesRequested(ParentPath(finalPath)) = 2
  /\ << >> \notin DOMAIN pages
  /\ result = Null


\* --------------------------------------------------------------------------
\* C38  the status of the sitemap response
\* --------------------------------------------------------------------------

\* the default handler resolved to a response object
BaseResponded == SitemapDone /\ defaultResponse.kind = "response"

\* GET answered 200 with the XML content type and the one-hour cache
\* directive, the body being the base text as it is or with entries inserted
AnsweredSitemap ==
  /\ sitemapResponse.kind = "response"
  /\ sitemapResponse.status = 200
  /\ "headers" \in DOMAIN sitemapResponse
  /\ sitemapResponse.headers.ContentType = "application/xml"
  /\ sitemapResponse.headers.CacheControl = "public, max-age=3600, s-maxage=3600"
  /\ \/ sitemapResponse.body = defaultResponse.body
     \/ /\ wildcardUrlEntries # << >>
        /\ sitemapResponse.body = InsertEntries(defaultResponse.body, wildcardUrlEntries)

\* C38 (as stated): whenever the default handler returns a response object,
\* whatever its status, GET answers 200 with Content-Type application/xml,
\* the one-hour cache directive and the base text enriched or unchanged.
C38_SitemapStatus == BaseResponded => AnsweredSitemap

\* C38 (amended): the same, whenever the default handler returns a response
\* object whose body text can be read; when reading the body fails GET
\* answers with what a second call of the default handler yields.
C38_SitemapStatusBodyRead ==
  /\ (BaseResponded /\ defaultResponse.textOk) => AnsweredSitemap
  /\ (BaseResponded /\ ~defaultResponse.textOk) =>
       (sitemapResponse \in HandlerOutcomes /\ ~Enhanced)

\* a base response of status 404 whose text was enriched and answered 200
C38_Witness ==
  /\ BaseResponded
  /\ defaultResponse.status = 404
  /\ defaultResponse.textOk
  /\ wildcardUrlEntries # << >>
  /\ AnsweredSitemap
  /\ sitemapResponse.body # defaultResponse.body


\* ------------------------------------------------------------------------
\* The sitemap route followed by a request for a page it listed
\* ------------------------------------------------------------------------
\* The route enriches one base sitemap; then the page route is requested at
\* the path of one of the entries, [...wildcardPrefix, child.name], for the
\* default site and locale 'en', with the Content Client answering as it
\* answered the probes and the remote endpoint still holding the child.

\* the characters of a text put together
RECURSIVE Text(_)
Text(pieces) == IF pieces = << >> THEN "" ELSE Head(pieces) \o Text(Tail(pieces))

\* the remote item the endpoint holds for child c
ItemOfChild(c) == [id |-> Text(c.id), name |-> Text(c.name), fields |-> << >>]

InitAgree ==
  /\ RemoteIdle
  /\ SingleCall
  /\ path = << >> /\ site = "site1" /\ locale = "en"
  /\ TARGET_SITE_NAME = "target"
  /\ TARGET_SITE_PATH = <<"/sitecore/content/target/Home/blog">>
  /\ edgeConfig = [edgeUrl |-> "https://edge.sitecorecloud.io", contextId |-> "ctx-1234"]
  /\ endpoint = Response(TRUE, FALSE, << >>)
  /\ pages = NoPages
  /\ store = [d \in Docs |-> d]
  /\ pc = "idle"
  /\ finalPath = << >> /\ finalLocale = ""
  /\ page = << >> /\ discovered = << >> /\ idx = 0
  /\ item = << >> /\ wildcardPage = << >>
  /\ getPageCalls = << >> /\ requests = << >>
  /\ result = Null /\ status = "running"
  /\ WILDCARD_PATH_PREFIX \in WildcardPathPrefixes
  /\ defaultSite = "site1"
  /\ request = [urlOk |-> TRUE, protocol |-> <<"https:">>, host |-> <<"example.com">>,
                pathname |-> <<"/", "sitemap.xml">>]
  /\ smPc = "text"
  /\ defaultResponse = [kind |-> "response", status |-> 200,
                        body |-> <<"<urlset>", "</urlset>">>, textOk |-> TRUE]
  /\ sitemapXml = << >>
  /\ wildcardPrefix = << >>
  /\ probeIdx = 0
  /\ childrenResponse = << >>
  /\ targetChildren = << >>
  /\ wildcardUrlEntries = << >>
  /\ enhancedSitemap = << >>
  /\ sitemapResponse = Null

\* the page route called for an entry of the sitemap just answered: the
\* route parameters are the default site, 'en' and the path of the entry
\* (part_000 lines 96-107); the GET call is over and its locals are gone
RequestListedPage ==
  /\ smPc = "done"
  /\ pc = "idle"
  /\ wildcardUrlEntries # << >>
  /\ \E k \in DOMAIN targetChildren :
       /\ path' = wildcardPrefix \o <<targetChildren[k].name>>
       /\ endpoint' = Response(TRUE, FALSE, <<ItemOfChild(targetChildren[k])>>)
  /\ site' = defaultSite
  /\ locale' = "en"
  /\ pc' = "start"
  /\ getPageCalls' = << >>
  /\ requests' = << >>
  /\ smPc' = "idle"
  /\ request' = [urlOk |-> TRUE, protocol |-> << >>, host |-> << >>, pathname |-> << >>]
  /\ defaultResponse' = Null
  /\ sitemapXml' = << >>
  /\ wildcardPrefix' = << >>
  /\ probeIdx' = 0
  /\ childrenResponse' = << >>
  /\ targetChildren' = << >>
  /\ wildcardUrlEntries' = << >>
  /\ enhancedSitemap' = << >>
  /\ sitemapResponse' = Null
  /\ UNCHANGED <<remote, scheduler, TARGET_SITE_NAME, TARGET_SITE_PATH, edgeConfig, locals,
                 pages, store, result, status, WILDCARD_PATH_PREFIX, defaultSite>>

NextAgree ==
  \/ ReadText
  \/ ImportClient
  \/ ProbeWildcard
  \/ FetchChildren
  \/ RequestListedPage
  \/ Start
  \/ GetDirectPage
  \/ LogChildrenById
  \/ Discover
  \/ FetchItem
  \/ TryTemplate
  \/ TryWildcardChild
  \/ GetParentPage
  \/ GetRootTemplate

SpecAgree == InitAgree /\ [][NextAgree]_vars


\* --------------------------------------------------------------------------
\* C39  the sitemap and the resolver agree
\* --------------------------------------------------------------------------

\* the call for the listed page has ended
ListedPageDone == smPc = "idle" /\ pc = "done"

\* the name of the listed child: the last segment of the requested path
ListedName == path[Len(path)]

\* neither the child's name nor a segment of the prefix holds '.', 'chrome'
\* or 'devtools': the request is not rejected and every segment is kept
PlainSegments == ~SystemRequest /\ CleanPath(path) = path

\* the remote item at <remote base path>/<c.name> is c
RemoteItemIsChild ==
  /\ RemoteItem # << >>
  /\ RemoteItem[1].name = Text(ListedName)
  /\ RemoteItem[1].id = Text(<<"{">> \o ListedName \o <<"}">>)

\* the Content Client has a root document with a route: it answered the
\* root path with one, or was not asked for it
RootExistsWithRoute ==
  << >> \in DOMAIN pages => (AnsweredPage(<< >>) /\ pages[<< >>].page.route # << >>)

\* the call returned a document named and identified as the child, made
\* from the remote item it asked for at <remote base path>/<c.name>
ReturnedListedChild ==
  /\ result.kind = "page"
  /\ RouteName(result.page) = RemoteItem[1].name
  /\ RouteItemId(result.page) = RemoteItem[1].id
  /\ requests = << [query |-> "GetItemWithFields",
                    path |-> TARGET_SITE_PATH \o <<"/">> \o ListedName,
                    language |-> "en"] >>

====
